---- MODULE Spec2Model ----
(***************************************************************************)
(* Memory consolidation engine (services/memory_service.py) and message    *)
(* ingestion pipeline (services/conversation_service.py,                   *)
(* database/models.py) of the ai-memory service.                           *)
(*                                                                         *)
(* Numbers.  Importances and similarity scores are fixed-point integers in *)
(* thousandths (0.85 is 850).  A product with REINFORCEMENT_FACTOR or      *)
(* DECAY_FACTOR is taken in thousandths and truncated.                     *)
(*                                                                         *)
(* Strings are sequences of one-character strings, so that strip() and     *)
(* lower() are computed and not assumed.                                   *)
(*                                                                         *)
(* Embeddings.  The embedding model and the vector index are external: an  *)
(* embedding is abstracted to a point of Dirs (or NoEmb, the empty list    *)
(* generate_embedding returns when the model is unavailable), and the      *)
(* similarity of two embeddings is read from a table by their distance.    *)
(***************************************************************************)
EXTENDS Integers, Sequences, FiniteSets, TLC

VARIABLES memory_nodes,   \* the memory_nodes collection: _id -> document
          conversations,  \* the conversations collection, in insertion order
          nextId,         \* the next ObjectId insert_one hands out
          calls,          \* remember_content calls made so far
          last,           \* the call that has just returned: inputs, branch, outcome
          tasks           \* the calls in flight when requests overlap: each one's
                          \* position in its handler and its local variables

vars == <<memory_nodes, conversations, nextId, calls, last, tasks>>

---------------------------------------------------------------------------
(* Bounds of the model *)

MaxCalls == 4
MaxMsgs == 1
MaxDocs == 3
MaxNodes == 3
MaxBetween == 3
MaxDegraded == 3
MaxTasks == 2
MaxTenantCalls == 4
MaxRatingLen == 3
MaxListCalls == 3
MaxCrowded == 5
MaxFailing == 3

---------------------------------------------------------------------------
(* Constants of the program *)

TOP_N == 3
MINIMUM_SIMILARITY == 750
HIGH_SIMILARITY == 850
MERGE_LOW == 700
MERGE_FACTOR_NUM == 11
MIN_MEMORY_TEXT == 30
EMBEDDING_DIM == 1536
MINIMUM_FULLTEXT_SCORE == 5000
FULLTEXT_LIMIT == 10
MINIMUM_HYBRID_SCORE == 700
HYBRID_WEIGHT == 800
HYBRID_TOP_N == 10
DEFAULT_IMPORTANCE == 500
MIN_IMPORTANCE == 100
MAX_IMPORTANCE == 1000

(* config.py: the values are configuration.  REINFORCEMENT_FACTOR = 1.1,   *)
(* DECAY_FACTOR = 0.99 (as NUM / DEN), SIMILARITY_THRESHOLD = 0.7.         *)
(* MAX_DEPTH is kept small so that a store over the cap is reached within  *)
(* MaxCalls calls.                                                         *)
MAX_DEPTH == 2
SIMILARITY_THRESHOLD == 700
REINFORCEMENT_NUM == 11
REINFORCEMENT_DEN == 10
DECAY_NUM == 99
DECAY_DEN == 100

---------------------------------------------------------------------------
(* Strings *)

Min(a, b) == IF a < b THEN a ELSE b
Max(a, b) == IF a > b THEN a ELSE b

IsSpace(c) == c = " "

\* str.lower()
Lower(s) ==
    [i \in DOMAIN s |-> IF s[i] = "A" THEN "a" ELSE IF s[i] = "B" THEN "b" ELSE s[i]]

RECURSIVE LStrip(_)
LStrip(s) == IF s # <<>> /\ IsSpace(Head(s)) THEN LStrip(Tail(s)) ELSE s

RECURSIVE RStrip(_)
RStrip(s) ==
    IF s # <<>> /\ IsSpace(s[Len(s)]) THEN RStrip(SubSeq(s, 1, Len(s) - 1)) ELSE s

\* str.strip()
Strip(s) == RStrip(LStrip(s))

\* n copies of the character c
RECURSIVE Rep(_, _)
Rep(c, n) == IF n = 0 THEN <<>> ELSE <<c>> \o Rep(c, n - 1)

---------------------------------------------------------------------------
(* Embeddings and similarity *)

\* generate_embedding's empty list; a vector is abstracted to <<d>>, d a point of Dirs
NoEmb == <<>>
Dirs == 0 .. 3
Embeddings == {<<d>> : d \in Dirs}

\* similarity of two vectors, in thousandths: near-identical (a point and itself),
\* moderately related (0 and 1), at the floor of the similarity query (1 and 3),
\* weakly related (1 and 2), unrelated (the rest); point 4 lies between the
\* unrelated points 0 and 3, close to both and closer to 3; point 5 is
\* moderately related to 1 and to nothing else
SimTable(a, b) ==
    CASE a = b -> 950
      [] {a, b} = {3, 4} -> 900
      [] {a, b} = {0, 4} -> 880
      [] {a, b} = {0, 1} -> 780
      [] {a, b} = {1, 5} -> 760
      [] {a, b} = {1, 3} -> 750
      [] {a, b} = {1, 2} -> 720
      [] OTHER -> 600

\* utils.helpers.cosine_similarity, the outcomes it can have: it fails when the
\* vectors differ in length (one is the empty list); for two empty lists (zero
\* magnitude) it fails or returns 0
cosine_similarity(a, b) ==
    IF Len(a) # Len(b) THEN {[raised |-> TRUE, value |-> 0]}
    ELSE IF a = NoEmb THEN {[raised |-> TRUE, value |-> 0], [raised |-> FALSE, value |-> 0]}
    ELSE {[raised |-> FALSE, value |-> SimTable(a[1], b[1])]}

\* $meta vectorSearchScore: the similarity of the query vector and a stored one
VectorSearchScore(a, b) == SimTable(a[1], b[1])

\* [(a + b) / 2 for a, b in zip(...)]: a vector between the two, which is nearest
\* to one of them (zip stops at the shorter list)
AvgEmbeddings(a, b) == IF a = NoEmb \/ b = NoEmb THEN {NoEmb} ELSE {a, b}

---------------------------------------------------------------------------
(* find_similar_memories *)

\* 1000 * ln(n)
Ln1000(n) ==
    CASE n <= 1 -> 0
      [] n = 2 -> 693
      [] n = 3 -> 1099
      [] n = 4 -> 1386
      [] n = 5 -> 1609
      [] n = 6 -> 1792
      [] n = 7 -> 1946
      [] OTHER -> 2079

\* the $project stage: importance * (1 + ln(access_count + 1))
\* (kept to four digits so that the sort key stays within 32 bits)
EffectiveImportance(doc) ==
    (doc.importance * (1000 + Ln1000(doc.access_count + 1))) \div 10

\* the documents $vectorSearch can return: the user's documents that carry a vector
Indexed(store, user) ==
    {n \in DOMAIN store : store[n].user_id = user /\ store[n].embeddings # NoEmb}

Similarity(store, n, embedding) == VectorSearchScore(embedding, store[n].embeddings)

\* $vectorSearch with "limit": the `limit` nearest documents, ties broken by the store
Nearest(store, user, embedding, limit) ==
    LET all == Indexed(store, user)
        k == Min(limit, Cardinality(all))
    IN {S \in SUBSET all :
          /\ Cardinality(S) = k
          /\ \A x \in S, y \in all \ S :
                Similarity(store, x, embedding) >= Similarity(store, y, embedding)}

\* the sort key of results.sort: effective_importance * similarity
SortKey(store, n, embedding) ==
    EffectiveImportance(store[n]) * Similarity(store, n, embedding)

\* results.sort(..., reverse=True) is stable over the store's order (descending
\* score): the orders a set of results can come out in
RECURSIVE Ranked(_, _, _)
Ranked(store, S, embedding) ==
    IF S = {} THEN {<<>>}
    ELSE LET first == {x \in S : \A y \in S :
                         \/ SortKey(store, x, embedding) > SortKey(store, y, embedding)
                         \/ /\ SortKey(store, x, embedding) = SortKey(store, y, embedding)
                            /\ Similarity(store, x, embedding)
                                 >= Similarity(store, y, embedding)}
         IN UNION {{<<x>> \o t : t \in Ranked(store, S \ {x}, embedding)} : x \in first}

\* find_similar_memories keeping every raw candidate, whatever its similarity
FindSimilarUnfiltered(store, user, embedding, top_n, minimum_similarity) ==
    LET user_id == Lower(user)
    IN IF embedding = NoEmb THEN {<<>>}
       ELSE UNION {
              {SubSeq(r, 1, Min(top_n, Len(r))) : r \in Ranked(store, raw, embedding)}
              : raw \in Nearest(store, user_id, embedding, top_n * 2)}

\* find_similar_memories(user_id, embedding, top_n, minimum_similarity): the result
\* lists (of _ids) it can return.  An empty query vector finds nothing.
find_similar_memories(store, user, embedding, top_n, minimum_similarity) ==
    LET user_id == Lower(user)
    IN IF embedding = NoEmb THEN {<<>>}
       ELSE UNION {
              LET results == {n \in raw :
                                Similarity(store, n, embedding) >= minimum_similarity}
              IN {SubSeq(r, 1, Min(top_n, Len(r))) : r \in Ranked(store, results, embedding)}
              : raw \in Nearest(store, user_id, embedding, top_n * 2)}

---------------------------------------------------------------------------
(* remember_content: the importance rating *)

Digits == {"0", "1", "2", "3", "4", "5", "6", "7", "8", "9"}

DigitVal(c) ==
    CASE c = "0" -> 0 [] c = "1" -> 1 [] c = "2" -> 2 [] c = "3" -> 3 [] c = "4" -> 4
      [] c = "5" -> 5 [] c = "6" -> 6 [] c = "7" -> 7 [] c = "8" -> 8 [] OTHER -> 9

\* the value of a string of digits
RECURSIVE DecimalValue(_)
DecimalValue(s) ==
    IF s = <<>> THEN 0
    ELSE 10 * DecimalValue(SubSeq(s, 1, Len(s) - 1)) + DigitVal(s[Len(s)])

IsDot(c) == c = "."
IsDigit(c) == c \in Digits
IsDigitOrDot(c) == c \in Digits \/ c = "."

\* float(s) of a string of digits and dots, in thousandths; a ValueError when
\* s has no digit or more than one dot
ParseFloat(s) ==
    LET dots == {i \in DOMAIN s : IsDot(s[i])}
    IN IF Cardinality(dots) > 1 \/ SelectSeq(s, IsDigit) = <<>>
       THEN [ValueError |-> TRUE, value |-> 0]
       ELSE IF dots = {} THEN [ValueError |-> FALSE, value |-> 1000 * DecimalValue(s)]
       ELSE LET d == CHOOSE i \in dots : TRUE
                frac == SubSeq(s \o <<"0", "0", "0">>, d + 1, d + 3)
            IN [ValueError |-> FALSE,
                value |-> 1000 * DecimalValue(SubSeq(s, 1, d - 1)) + DecimalValue(frac)]

\* importance_score of the rating text send_to_bedrock returned (<<>>: None)
ImportanceScore(importance_rating_text) ==
    IF importance_rating_text = <<>> THEN DEFAULT_IMPORTANCE
    ELSE LET rating == ParseFloat(SelectSeq(importance_rating_text, IsDigitOrDot))
         IN IF rating.ValueError THEN DEFAULT_IMPORTANCE
            ELSE Min(Max(rating.value \div 10, MIN_IMPORTANCE), MAX_IMPORTANCE)

---------------------------------------------------------------------------
(* The store *)

\* update_one with upsert=True: a document is made when none has the _id
UpdateOneUpserting(store, id, importance, access_count) ==
    IF id \in DOMAIN store
    THEN [store EXCEPT ![id].importance = importance, ![id].access_count = access_count]
    ELSE [n \in DOMAIN store \cup {id} |->
            IF n = id
            THEN [user_id |-> <<>>, importance |-> importance,
                  access_count |-> access_count, embeddings |-> NoEmb]
            ELSE store[n]]

\* update_one({"_id": id}, {"$set": fields}): a no-op when no document matches
UpdateOne(store, id, importance, access_count) ==
    IF id \in DOMAIN store
    THEN [store EXCEPT ![id].importance = importance, ![id].access_count = access_count]
    ELSE store

\* delete_one({"_id": id})
DeleteOne(store, id) == [n \in DOMAIN store \ {id} |-> store[n]]

\* insert_one(doc) under the fresh _id
InsertOne(store, id, doc) == [n \in DOMAIN store \cup {id} |-> IF n = id THEN doc ELSE store[n]]

\* find({"user_id": user_id}): the user's _ids
UserDocs(store, user) == {n \in DOMAIN store : store[n].user_id = user}

\* a cursor over a set of _ids, in natural (insertion) order
RECURSIVE Cursor(_)
Cursor(S) ==
    IF S = {} THEN <<>>
    ELSE LET n == CHOOSE x \in S : \A y \in S : x <= y IN <<n>> \o Cursor(S \ {n})

\* whether the $set of an update_one names last_accessed: the reinforce branch
\* (lines 237-239) does, update_importance (line 193) and the merge (lines
\* 344-350) do not
SetsLastAccessed(kind) == kind = "reinforce"

\* one update_one of the handler, as logged in last.writes
Write(kind, id, old, importance, access_count) ==
    [kind |-> kind, id |-> id,
     importance_old |-> old.importance, importance |-> importance,
     access_count_old |-> old.access_count, access_count |-> access_count,
     last_accessed |-> SetsLastAccessed(kind)]

---------------------------------------------------------------------------
(* update_importance and prune_memories *)

Reinforced(importance) == (importance * REINFORCEMENT_NUM) \div REINFORCEMENT_DEN
Decayed(importance) == (importance * DECAY_NUM) \div DECAY_DEN

\* update_importance(user_id, embedding) over the documents still to visit: the
\* outcomes [store, writes, raised].  failAt: the visit whose update_one fails
\* (0: none).
RECURSIVE UpdateFrom(_, _, _, _, _, _)
UpdateFrom(store, writes, docs, embedding, visit, failAt) ==
    IF docs = <<>> THEN {[store |-> store, writes |-> writes, raised |-> FALSE]}
    ELSE LET doc_id == Head(docs)
             doc == store[doc_id]
         IN UNION {
              IF similarity.raised \/ visit = failAt
              THEN {[store |-> store, writes |-> writes, raised |-> TRUE]}
              ELSE LET reinforce == similarity.value > SIMILARITY_THRESHOLD
                       new_importance == IF reinforce THEN Reinforced(doc.importance)
                                         ELSE Decayed(doc.importance)
                       new_access_count == IF reinforce THEN doc.access_count + 1
                                           ELSE doc.access_count
                   IN UpdateFrom(UpdateOne(store, doc_id, new_importance, new_access_count),
                                 Append(writes,
                                        Write(IF reinforce THEN "pass_reinforce" ELSE "pass_decay",
                                              doc_id, doc, new_importance, new_access_count)),
                                 Tail(docs), embedding, visit + 1, failAt)
              : similarity \in cosine_similarity(embedding, doc.embeddings)}

\* update_importance leaving out the node inserted last
UpdateImportanceSkipsNewest(store, writes, user_id, embedding, failAt) ==
    LET docs == UserDocs(store, user_id)
    IN UpdateFrom(store, writes,
                  Cursor({n \in docs : \E m \in docs : m > n}), embedding, 1, failAt)

\* update_importance visiting the documents of every user
UpdateImportanceAllUsers(store, writes, user_id, embedding, failAt) ==
    UpdateFrom(store, writes, Cursor(DOMAIN store), embedding, 1, failAt)

\* update_importance leaving out the documents that carry the query vector itself
UpdateImportanceOthersOnly(store, writes, user_id, embedding, failAt) ==
    UpdateFrom(store, writes,
               Cursor({n \in UserDocs(store, user_id) : store[n].embeddings # embedding}),
               embedding, 1, failAt)

update_importance(store, writes, user_id, embedding, failAt) ==
    UpdateFrom(store, writes, Cursor(UserDocs(store, user_id)), embedding, 1, failAt)

\* PruneSets sorting on importance in descending order
PruneSetsDescending(store, user_id) ==
    LET docs == UserDocs(store, user_id)
        count == Cardinality(docs)
    IN IF count > MAX_DEPTH
       THEN {S \in SUBSET docs :
               /\ Cardinality(S) = count - MAX_DEPTH
               /\ \A x \in S, y \in docs \ S : store[x].importance >= store[y].importance}
       ELSE {{}}

\* PruneSets leaving one document too many
PruneSetsOffByOne(store, user_id) ==
    LET docs == UserDocs(store, user_id)
        count == Cardinality(docs)
    IN IF count > MAX_DEPTH + 1
       THEN {S \in SUBSET docs :
               /\ Cardinality(S) = count - MAX_DEPTH - 1
               /\ \A x \in S, y \in docs \ S : store[x].importance <= store[y].importance}
       ELSE {{}}

\* prune_memories(user_id): the sets of documents it can delete (the sort on
\* importance leaves the order of equal importances to the store)
PruneSets(store, user_id) ==
    LET docs == UserDocs(store, user_id)
        count == Cardinality(docs)
    IN IF count > MAX_DEPTH
       THEN {S \in SUBSET docs :
               /\ Cardinality(S) = count - MAX_DEPTH
               /\ \A x \in S, y \in docs \ S : store[x].importance <= store[y].importance}
       ELSE {{}}

prune_memories(store, S) == [n \in DOMAIN store \ S |-> store[n]]

---------------------------------------------------------------------------
(* remember_content *)

\* generate_embedding(text): the empty list for blank text, else what the model
\* gives (a vector, or the empty list when it is unavailable)
generate_embedding(text, model) == IF Strip(text) = <<>> THEN NoEmb ELSE model

\* the places a store operation of remember_content can fail
FailPoints == {"none", "find1", "find2"}

\* what a call leaves behind and returns; raised: it ended in `raise`; embedded:
\* it called generate_embedding (line 224, past the empty-content return);
\* generated: it called send_to_bedrock (lines 255-277, on the create branch)
Outcome(store, nid, raised, branch, message, memory_id, importance, new, merged, writes, pruned) ==
    [store |-> store, nextId |-> nid, raised |-> raised, branch |-> branch,
     message |-> IF raised THEN "error" ELSE message,
     memory_id |-> IF raised THEN 0 ELSE memory_id,
     importance |-> IF raised THEN 0 ELSE importance,
     new |-> new, merged |-> merged, writes |-> writes, pruned |-> pruned,
     similar |-> <<>>, embedded |-> branch # "empty", generated |-> branch = "create"]

\* lines 358-365: prune, then the "Remembered" result
PruneStep(store, nid, user_id, new, importance_score, merged, writes, fail) ==
    IF fail = "prune"
    THEN {Outcome(store, nid, TRUE, "create", "", 0, 0, new, merged, writes, {})}
    ELSE {Outcome(prune_memories(store, S), nid, FALSE, "create", "Remembered", new,
                  importance_score, new, merged, writes, S)
          : S \in PruneSets(store, user_id)}

\* lines 356-357: the pass over all the user's documents
PassStep(store, nid, user_id, embeddings, new, importance_score, merged, writes, fail) ==
    UNION {
      IF u.raised
      THEN {Outcome(u.store, nid, TRUE, "create", "", 0, 0, new, merged, u.writes, {})}
      ELSE PruneStep(u.store, nid, user_id, new, importance_score, merged, u.writes, fail)
      : u \in update_importance(store, writes, user_id, embeddings,
                                IF fail = "update" THEN 1 ELSE 0)}

\* MergeCandidate with the lower limit of the band set at 0.8
MergeCandidateNarrow(store, similar_memories, embeddings, memory_id) ==
    LET band == {i \in DOMAIN similar_memories :
                   /\ similar_memories[i] # memory_id
                   /\ 800 < Similarity(store, similar_memories[i], embeddings)
                   /\ Similarity(store, similar_memories[i], embeddings) < HIGH_SIMILARITY}
    IN IF band = {} THEN 0
       ELSE similar_memories[CHOOSE i \in band : \A j \in band : i <= j]

\* MergeCandidate taking the last result in the band
MergeCandidateLast(store, similar_memories, embeddings, memory_id) ==
    LET band == {i \in DOMAIN similar_memories :
                   /\ similar_memories[i] # memory_id
                   /\ MERGE_LOW < Similarity(store, similar_memories[i], embeddings)
                   /\ Similarity(store, similar_memories[i], embeddings) < HIGH_SIMILARITY}
    IN IF band = {} THEN 0
       ELSE similar_memories[CHOOSE i \in band : \A j \in band : j <= i]

\* the first result the merge loop takes (lines 300-301), 0 when there is none
MergeCandidate(store, similar_memories, embeddings, memory_id) ==
    LET band == {i \in DOMAIN similar_memories :
                   /\ similar_memories[i] # memory_id
                   /\ MERGE_LOW < Similarity(store, similar_memories[i], embeddings)
                   /\ Similarity(store, similar_memories[i], embeddings) < HIGH_SIMILARITY}
    IN IF band = {} THEN 0
       ELSE similar_memories[CHOOSE i \in band : \A j \in band : i <= j]

\* lines 300-355: the merge loop over the second query's results
MergeStep(store, nid, user_id, embeddings, new, importance_score, similar_memories, fail) ==
    LET memory == MergeCandidate(store, similar_memories, embeddings, new)
    IN IF memory = 0
       THEN PassStep(store, nid, user_id, embeddings, new, importance_score, 0, <<>>, fail)
       ELSE LET updated_importance ==
                    (Max(importance_score, store[memory].importance) * MERGE_FACTOR_NUM)
                        \div 10
                updated_access_count == 0 + store[memory].access_count
                write == Write("merge", new, store[new], updated_importance,
                               updated_access_count)
            IN UNION {
                 LET updated == [UpdateOne(store, new, updated_importance,
                                           updated_access_count)
                                   EXCEPT ![new].embeddings = updated_embeddings]
                 IN IF fail = "delete"
                    THEN {Outcome(updated, nid, TRUE, "create", "", 0, 0, new, 0,
                                  <<write>>, {})}
                    ELSE PassStep(DeleteOne(updated, memory), nid, user_id, embeddings, new,
                                  importance_score, memory, <<write>>, fail)
                 : updated_embeddings \in AvgEmbeddings(embeddings, store[memory].embeddings)}

\* CreateBranch taking its node back when the second query fails
CreateBranchRollingBack(store, nid, user_id, embeddings, importance_rating_text, fail) ==
    LET importance_score == ImportanceScore(importance_rating_text)
        new_memory == [user_id |-> user_id, importance |-> importance_score,
                       access_count |-> 0, embeddings |-> embeddings]
        inserted == InsertOne(store, nid, new_memory)
    IN IF fail = "find2"
       THEN {Outcome(store, nid + 1, TRUE, "create", "", 0, 0, nid, 0, <<>>, {})}
       ELSE UNION {MergeStep(inserted, nid + 1, user_id, embeddings, nid, importance_score,
                             similar_memories, fail)
                   : similar_memories \in
                       find_similar_memories(inserted, user_id, embeddings, TOP_N,
                                             MINIMUM_SIMILARITY)}

\* lines 247-365: the create branch
CreateBranch(store, nid, user_id, embeddings, importance_rating_text, fail) ==
    LET importance_score == ImportanceScore(importance_rating_text)
        new_memory == [user_id |-> user_id, importance |-> importance_score,
                       access_count |-> 0, embeddings |-> embeddings]
        inserted == InsertOne(store, nid, new_memory)
    IN IF fail = "find2"
       THEN {Outcome(inserted, nid + 1, TRUE, "create", "", 0, 0, nid, 0, <<>>, {})}
       ELSE UNION {MergeStep(inserted, nid + 1, user_id, embeddings, nid, importance_score,
                             similar_memories, fail)
                   : similar_memories \in
                       find_similar_memories(inserted, user_id, embeddings, TOP_N,
                                             MINIMUM_SIMILARITY)}

\* ReinforceCandidate with the threshold misplaced above every score
ReinforceCandidateStrict(store, similar_memories, embeddings) ==
    LET high == {i \in DOMAIN similar_memories :
                   Similarity(store, similar_memories[i], embeddings) > 2 * HIGH_SIMILARITY}
    IN IF high = {} THEN 0
       ELSE similar_memories[CHOOSE i \in high : \A j \in high : i <= j]

\* ReinforceCandidate taking the last result above the threshold
ReinforceCandidateLast(store, similar_memories, embeddings) ==
    LET high == {i \in DOMAIN similar_memories :
                   Similarity(store, similar_memories[i], embeddings) > HIGH_SIMILARITY}
    IN IF high = {} THEN 0
       ELSE similar_memories[CHOOSE i \in high : \A j \in high : j <= i]

\* the first result above the high similarity threshold (lines 228-229), 0 when
\* there is none
ReinforceCandidate(store, similar_memories, embeddings) ==
    LET high == {i \in DOMAIN similar_memories :
                   Similarity(store, similar_memories[i], embeddings) > HIGH_SIMILARITY}
    IN IF high = {} THEN 0
       ELSE similar_memories[CHOOSE i \in high : \A j \in high : i <= j]

\* ReinforceBranch writing a first access instead of one more
ReinforceBranchReset(store, nid, memory) ==
    LET importance == Reinforced(store[memory].importance)
        access_count == 1
    IN {Outcome(UpdateOne(store, memory, importance, access_count), nid, FALSE,
                "reinforce", "Reinforced existing memory", memory, 0, 0, 0,
                <<Write("reinforce", memory, store[memory], importance, access_count)>>,
                {})}

\* ReinforceBranch followed by the global pass and the prune of the create branch
ReinforceBranchWithPass(store, nid, memory) ==
    LET importance == Reinforced(store[memory].importance)
        access_count == store[memory].access_count + 1
        write == Write("reinforce", memory, store[memory], importance, access_count)
    IN UNION {
         {Outcome(prune_memories(u.store, S), nid, FALSE, "reinforce",
                  "Reinforced existing memory", memory, 0, 0, 0, u.writes, S)
          : S \in PruneSets(u.store, store[memory].user_id)}
         : u \in update_importance(UpdateOne(store, memory, importance, access_count),
                                   <<write>>, store[memory].user_id,
                                   store[memory].embeddings, 0)}

\* lines 228-246: the reinforce branch on the first query's results
ReinforceBranch(store, nid, memory) ==
    LET importance == Reinforced(store[memory].importance)
        access_count == store[memory].access_count + 1
    IN {Outcome(UpdateOne(store, memory, importance, access_count), nid, FALSE,
                "reinforce", "Reinforced existing memory", memory, 0, 0, 0,
                <<Write("reinforce", memory, store[memory], importance, access_count)>>,
                {})}

\* remember_content(request): the outcomes of a call.  model: what the embedding
\* model gives for the content; importance_rating_text: what send_to_bedrock
\* returns for the rating prompt; fail: the store operation that fails.
remember_content(store, nid, request_user_id, content, model, importance_rating_text, fail) ==
    LET user_id == Lower(request_user_id)
    IN IF Strip(content) = <<>>
       THEN {Outcome(store, nid, FALSE, "empty", "Cannot remember empty content", 0, 0, 0,
                     0, <<>>, {})}
       ELSE LET embeddings == generate_embedding(content, model)
            IN IF fail = "find1"
               THEN {Outcome(store, nid, TRUE, "find", "", 0, 0, 0, 0, <<>>, {})}
               ELSE UNION {
                      LET memory == ReinforceCandidate(store, similar_memories, embeddings)
                      IN {[r EXCEPT !.similar = similar_memories]
                          : r \in IF memory # 0
                                  THEN ReinforceBranch(store, nid, memory)
                                  ELSE CreateBranch(store, nid, user_id, embeddings,
                                                    importance_rating_text, fail)}
                      : similar_memories \in
                          find_similar_memories(store, user_id, embeddings, TOP_N,
                                                MINIMUM_SIMILARITY)}

---------------------------------------------------------------------------
(* The memory engine as a state machine *)

UserIds == {<<"A">>}
Contents == {<<" ">>, <<"m">>}
RatingTexts == {<<>>, <<"1", "0">>}
ModelOutputs == Embeddings \cup {NoEmb}

\* no search made: the response fields of search_memory (documents: the rows
\* returned, empty under the "No documents found" sentinel)
NoResponse ==
    [raised |-> FALSE, documents |-> <<>>, sentinel |-> FALSE, total_results |-> 0,
     relevant_results |-> 0, search_type |-> "", vector_searched |-> FALSE,
     candidates |-> <<>>]

NoInput == [user_id |-> <<>>, conversation_id |-> <<>>, type |-> "", text |-> <<>>,
            timestamp |-> ""]

NoCall ==
    [op |-> "none", input |-> NoInput, error |-> "", ack |-> "", invoked |-> FALSE,
     user_id |-> <<>>, embeddings |-> NoEmb, before |-> 0, similar |-> <<>>,
     raised |-> FALSE, branch |-> "none", message |-> "", memory_id |-> 0,
     importance |-> 0, new |-> 0, merged |-> 0, writes |-> <<>>, pruned |-> {},
     embedding_len |-> 0, minimum_similarity |-> 0, embedded |-> FALSE,
     generated |-> FALSE, importance_rating_text |-> <<>>,
     fts |-> <<>>, vs |-> <<>>, weight |-> 0, top_n |-> 0, response |-> NoResponse]

Init ==
    /\ memory_nodes = <<>>
    /\ conversations = <<>>
    /\ nextId = 1
    /\ calls = 0
    /\ last = NoCall
    /\ tasks = <<>>

\* what `last` records of a remember_content call with outcome r
LastOf(request_user_id, content, model, r) ==
    [NoCall EXCEPT
       !.op = "remember", !.invoked = TRUE, !.user_id = Lower(request_user_id),
       !.embeddings = generate_embedding(content, model), !.similar = r.similar,
       !.before = Cardinality(UserDocs(memory_nodes, Lower(request_user_id))),
       !.raised = r.raised, !.branch = r.branch, !.message = r.message,
       !.memory_id = r.memory_id, !.importance = r.importance, !.new = r.new,
       !.merged = r.merged, !.writes = r.writes, !.pruned = r.pruned,
       !.embedded = r.embedded, !.generated = r.generated]

\* one remember_content call, from its request to its return or raise
Remember ==
    /\ calls < MaxCalls
    /\ \E request_user_id \in UserIds, content \in Contents :
       \E model \in IF Strip(content) = <<>> THEN {NoEmb} ELSE ModelOutputs,
          importance_rating_text \in IF Strip(content) = <<>> THEN {<<>>} ELSE RatingTexts,
          fail \in IF Strip(content) = <<>> THEN {"none"} ELSE FailPoints :
         \E r \in remember_content(memory_nodes, nextId, request_user_id, content, model,
                                   importance_rating_text, fail) :
            /\ memory_nodes' = r.store
            /\ nextId' = r.nextId
            /\ calls' = calls + 1
            /\ last' = LastOf(request_user_id, content, model, r)
    /\ UNCHANGED <<conversations, tasks>>

Next == Remember

Spec == Init /\ [][Next]_vars

\* contents whose vectors are the unrelated points 0 and 3 and the point 4 between
\* them: two nodes that do not merge, and a third content close to both
BetweenOutputs == {<<0>>, <<3>>, <<4>>}

\* one remember_content call on such a content
RememberBetween ==
    /\ calls < MaxBetween
    /\ \E request_user_id \in UserIds, model \in BetweenOutputs,
          importance_rating_text \in RatingTexts, fail \in FailPoints :
         \E r \in remember_content(memory_nodes, nextId, request_user_id, <<"m">>, model,
                                   importance_rating_text, fail) :
            /\ memory_nodes' = r.store
            /\ nextId' = r.nextId
            /\ calls' = calls + 1
            /\ last' = LastOf(request_user_id, <<"m">>, model, r)
    /\ UNCHANGED <<conversations, tasks>>

NextBetween == RememberBetween

SpecBetween == Init /\ [][NextBetween]_vars

\* what the embedding model gives while it comes and goes: a vector, or nothing
DegradedOutputs == {NoEmb, <<0>>, <<1>>}

\* one remember_content call while the store works (no store operation fails);
\* `last` records also the rating text the call received
RememberDegraded ==
    /\ calls < MaxDegraded
    /\ \E request_user_id \in UserIds, model \in DegradedOutputs,
          importance_rating_text \in RatingTexts :
         \E r \in remember_content(memory_nodes, nextId, request_user_id, <<"m">>, model,
                                   importance_rating_text, "none") :
            /\ memory_nodes' = r.store
            /\ nextId' = r.nextId
            /\ calls' = calls + 1
            /\ last' = [LastOf(request_user_id, <<"m">>, model, r)
                          EXCEPT !.importance_rating_text = importance_rating_text]
    /\ UNCHANGED <<conversations, tasks>>

NextDegraded == RememberDegraded

SpecDegraded == Init /\ [][NextDegraded]_vars

\* contents around the point 1: the points 0, 3 and 5 are moderately related to
\* it (0.78, 0.75, 0.76) and unrelated to each other
CrowdedOutputs == {<<0>>, <<1>>, <<3>>, <<5>>}
CrowdedFailPoints == {"none", "find2"}

\* one remember_content call on such a content; a call whose second query fails
\* leaves its node behind, unpruned
RememberCrowded ==
    /\ calls < MaxCrowded
    /\ \E request_user_id \in UserIds, model \in CrowdedOutputs,
          importance_rating_text \in RatingTexts, fail \in CrowdedFailPoints :
         \E r \in remember_content(memory_nodes, nextId, request_user_id, <<"m">>, model,
                                   importance_rating_text, fail) :
            /\ memory_nodes' = r.store
            /\ nextId' = r.nextId
            /\ calls' = calls + 1
            /\ last' = LastOf(request_user_id, <<"m">>, model, r)
    /\ UNCHANGED <<conversations, tasks>>

NextCrowded == RememberCrowded

SpecCrowded == Init /\ [][NextCrowded]_vars

\* every store operation of remember_content that can fail: the two queries
\* (lines 226, 298), the delete of the merged node (353), the first update of the
\* global pass (193), the prune (201)
AllFailPoints == {"none", "find1", "find2", "delete", "update", "prune"}
FailingOutputs == {NoEmb, <<0>>, <<1>>}

\* one remember_content call in which one store operation may fail
RememberFailing ==
    /\ calls < MaxFailing
    /\ \E request_user_id \in UserIds, model \in FailingOutputs, fail \in AllFailPoints :
         \E r \in remember_content(memory_nodes, nextId, request_user_id, <<"m">>, model,
                                   <<>>, fail) :
            /\ memory_nodes' = r.store
            /\ nextId' = r.nextId
            /\ calls' = calls + 1
            /\ last' = LastOf(request_user_id, <<"m">>, model, r)
    /\ UNCHANGED <<conversations, tasks>>

NextFailing == RememberFailing

SpecFailing == Init /\ [][NextFailing]_vars

\* two tenants, one of them written with a capital in the request
TenantUserIds == {<<"A">>, <<"b">>}
TenantOutputs == {<<0>>, <<1>>, <<2>>, <<3>>}

\* one remember_content call of one of two tenants
RememberTenant ==
    /\ calls < MaxTenantCalls
    /\ \E request_user_id \in TenantUserIds, model \in TenantOutputs :
         \E r \in remember_content(memory_nodes, nextId, request_user_id, <<"m">>, model,
                                   <<>>, "none") :
            /\ memory_nodes' = r.store
            /\ nextId' = r.nextId
            /\ calls' = calls + 1
            /\ last' = LastOf(request_user_id, <<"m">>, model, r)
    /\ UNCHANGED <<conversations, tasks>>

NextTenant == RememberTenant

SpecTenant == Init /\ [][NextTenant]_vars

---------------------------------------------------------------------------
(* Message (database/models.py) and add_conversation_message *)

\* parse_timestamp: "none" (now), "bad" (HTTPException 400)
Timestamps == {"none", "bad"}

\* to_dict() of no message; a stored vector is abstracted to its length
NoDoc == [user_id |-> <<>>, conversation_id |-> <<>>, type |-> "", text |-> <<>>,
          timestamp |-> "", embeddings |-> 0]

\* f"Invalid embedding dimensions. Expected 1536, got {actual_len}"
InvalidDimensions(actual_len) ==
    "Invalid embedding dimensions. Expected " \o ToString(EMBEDDING_DIM) \o ", got "
        \o ToString(actual_len)

\* Message taking an empty embedding for a valid one
MessageAcceptingEmpty(message_data, embedding_len) ==
    LET user_id == Strip(message_data.user_id)
        conversation_id == Strip(message_data.conversation_id)
        text == Strip(message_data.text)
        Error(e) == [raised |-> TRUE, error |-> e, doc |-> NoDoc]
    IN IF user_id = <<>> THEN Error("user_id cannot be empty")
       ELSE IF conversation_id = <<>> THEN Error("conversation_id cannot be empty")
       ELSE IF text = <<>> THEN Error("Message text cannot be empty")
       ELSE IF message_data.timestamp = "bad" THEN Error("Invalid timestamp format")
       ELSE IF embedding_len # 0 /\ embedding_len # EMBEDDING_DIM
       THEN Error(InvalidDimensions(embedding_len))
       ELSE [raised |-> FALSE, error |-> "",
             doc |-> [user_id |-> user_id, conversation_id |-> conversation_id,
                      type |-> message_data.type, text |-> text,
                      timestamp |-> message_data.timestamp,
                      embeddings |-> embedding_len]]

\* Message checking its fields for emptiness without trimming them
MessageUntrimmed(message_data, embedding_len) ==
    LET Error(e) == [raised |-> TRUE, error |-> e, doc |-> NoDoc]
    IN IF message_data.user_id = <<>> THEN Error("user_id cannot be empty")
       ELSE IF message_data.conversation_id = <<>>
       THEN Error("conversation_id cannot be empty")
       ELSE IF message_data.text = <<>> THEN Error("Message text cannot be empty")
       ELSE IF message_data.timestamp = "bad" THEN Error("Invalid timestamp format")
       ELSE IF embedding_len # EMBEDDING_DIM THEN Error(InvalidDimensions(embedding_len))
       ELSE [raised |-> FALSE, error |-> "",
             doc |-> [user_id |-> Strip(message_data.user_id),
                      conversation_id |-> Strip(message_data.conversation_id),
                      type |-> message_data.type, text |-> Strip(message_data.text),
                      timestamp |-> message_data.timestamp,
                      embeddings |-> embedding_len]]

\* Message.__init__(message_data): the validated document, or the error raised.
\* embedding_len: the length of what generate_embedding(self.text) returns.
Message(message_data, embedding_len) ==
    LET user_id == Strip(message_data.user_id)
        conversation_id == Strip(message_data.conversation_id)
        text == Strip(message_data.text)
        Error(e) == [raised |-> TRUE, error |-> e, doc |-> NoDoc]
    IN IF user_id = <<>> THEN Error("user_id cannot be empty")
       ELSE IF conversation_id = <<>> THEN Error("conversation_id cannot be empty")
       ELSE IF text = <<>> THEN Error("Message text cannot be empty")
       ELSE IF message_data.timestamp = "bad" THEN Error("Invalid timestamp format")
       ELSE IF embedding_len # EMBEDDING_DIM THEN Error(InvalidDimensions(embedding_len))
       ELSE [raised |-> FALSE, error |-> "",
             doc |-> [user_id |-> user_id, conversation_id |-> conversation_id,
                      type |-> message_data.type, text |-> text,
                      timestamp |-> message_data.timestamp,
                      embeddings |-> embedding_len]]

\* f"From conversation {conversation_id}: {text}"
MemoryContent(conversation_id, text) ==
    <<"F", "r", "o", "m", " ", "c", "o", "n", "v", "e", "r", "s", "a", "t", "i", "o", "n", " ">>
        \o conversation_id \o <<":", " ">> \o text

\* line 135: the message is handed to remember_content
IsSignificant(message_input) ==
    message_input.type = "human" /\ Len(message_input.text) > MIN_MEMORY_TEXT

\* add_conversation_message keeping the user_id in the case it came in
AddConversationMessageCaseKept(docs, store, nid, message_input, embedding_len, model, importance_rating_text, fail) ==
    LET new_message == Message(message_input, embedding_len)
        Result(d, r, error, ack, invoked) ==
            [docs |-> d, remember |-> r, error |-> error, ack |-> ack, invoked |-> invoked]
        nothing == Outcome(store, nid, FALSE, "none", "", 0, 0, 0, 0, <<>>, {})
    IN IF new_message.raised
       THEN {Result(docs, nothing, new_message.error, "", FALSE)}
       ELSE LET inserted == Append(docs, new_message.doc)
            IN IF IsSignificant(message_input)
               THEN {Result(inserted, r, "", "Message added successfully", TRUE)
                     : r \in remember_content(store, nid, message_input.user_id,
                                              MemoryContent(message_input.conversation_id,
                                                            message_input.text),
                                              model, importance_rating_text, fail)}
               ELSE {Result(inserted, nothing, "", "Message added successfully", FALSE)}

\* add_conversation_message letting a failure of remember_content reach its caller
AddConversationMessagePropagating(docs, store, nid, message_input, embedding_len, model, importance_rating_text, fail) ==
    LET normalized == [message_input EXCEPT !.user_id = Lower(message_input.user_id)]
        new_message == Message(normalized, embedding_len)
        Result(d, r, error, ack, invoked) ==
            [docs |-> d, remember |-> r, error |-> error, ack |-> ack, invoked |-> invoked]
        nothing == Outcome(store, nid, FALSE, "none", "", 0, 0, 0, 0, <<>>, {})
    IN IF new_message.raised
       THEN {Result(docs, nothing, new_message.error, "", FALSE)}
       ELSE LET inserted == Append(docs, new_message.doc)
            IN IF IsSignificant(normalized)
               THEN {IF r.raised
                     THEN Result(inserted, r, "Memory creation failed", "", TRUE)
                     ELSE Result(inserted, r, "", "Message added successfully", TRUE)
                     : r \in remember_content(store, nid, normalized.user_id,
                                              MemoryContent(normalized.conversation_id,
                                                            normalized.text),
                                              model, importance_rating_text, fail)}
               ELSE {Result(inserted, nothing, "", "Message added successfully", FALSE)}

\* add_conversation_message(message_input): the outcomes of a call
add_conversation_message(docs, store, nid, message_input, embedding_len, model, importance_rating_text, fail) ==
    LET normalized == [message_input EXCEPT !.user_id = Lower(message_input.user_id)]
        new_message == Message(normalized, embedding_len)
        Result(d, r, error, ack, invoked) ==
            [docs |-> d, remember |-> r, error |-> error, ack |-> ack, invoked |-> invoked]
        nothing == Outcome(store, nid, FALSE, "none", "", 0, 0, 0, 0, <<>>, {})
    IN IF new_message.raised
       THEN {Result(docs, nothing, new_message.error, "", FALSE)}
       ELSE LET inserted == Append(docs, new_message.doc)
            IN IF IsSignificant(normalized)
               THEN {Result(inserted, r, "", "Message added successfully", TRUE)
                     : r \in remember_content(store, nid, normalized.user_id,
                                              MemoryContent(normalized.conversation_id,
                                                            normalized.text),
                                              model, importance_rating_text, fail)}
               ELSE {Result(inserted, nothing, "", "Message added successfully", FALSE)}

MsgUserIds == {<<"A">>, <<"a", " ">>, <<" ">>}
ConversationIds == {<<"c">>, <<" ">>}
Types == {"human", "ai"}
Texts == {<<" ">>, Rep("x", 30), Rep("x", 31), <<" ", " ">> \o Rep("x", 29)}
EmbeddingLens == {0, 128, 1536}
MessageInputs ==
    [user_id : MsgUserIds, conversation_id : ConversationIds, type : Types, text : Texts,
     timestamp : Timestamps]

\* Message.__init__ lines 16-42: the input passes the field and timestamp checks,
\* so that generate_embedding is called
ReachesEmbedding(message_input) ==
    /\ Strip(message_input.user_id) # <<>>
    /\ Strip(message_input.conversation_id) # <<>>
    /\ Strip(message_input.text) # <<>>
    /\ message_input.timestamp # "bad"

\* the inputs whose call reaches remember_content: only these draw its inputs
Consolidates(message_input, embedding_len) ==
    /\ ~Message([message_input EXCEPT !.user_id = Lower(message_input.user_id)],
                embedding_len).raised
    /\ IsSignificant(message_input)

\* one add_conversation_message call, from its input to its return or raise
AddConversationMessage ==
    /\ Len(conversations) < MaxMsgs
    /\ \E message_input \in MessageInputs :
       \E embedding_len \in IF ReachesEmbedding(message_input) THEN EmbeddingLens ELSE {0} :
       \E model \in IF Consolidates(message_input, embedding_len)
                     THEN ModelOutputs ELSE {NoEmb},
          importance_rating_text \in IF Consolidates(message_input, embedding_len)
                                      THEN RatingTexts ELSE {<<>>},
          fail \in IF Consolidates(message_input, embedding_len)
                   THEN FailPoints ELSE {"none"} :
         \E a \in add_conversation_message(conversations, memory_nodes, nextId,
                                           message_input, embedding_len, model,
                                           importance_rating_text, fail) :
            /\ conversations' = a.docs
            /\ memory_nodes' = a.remember.store
            /\ nextId' = a.remember.nextId
            /\ calls' = IF a.invoked THEN calls + 1 ELSE calls
            /\ last' = [LastOf(Lower(message_input.user_id),
                               MemoryContent(message_input.conversation_id,
                                             message_input.text),
                               model, a.remember)
                          EXCEPT !.op = "add_message", !.input = message_input,
                                 !.error = a.error, !.ack = a.ack,
                                 !.invoked = a.invoked,
                                 !.embedding_len = embedding_len,
                                 !.embeddings = IF a.invoked THEN @ ELSE NoEmb]
    /\ UNCHANGED tasks

NextIngest == AddConversationMessage

SpecIngest == Init /\ [][NextIngest]_vars

---------------------------------------------------------------------------
(* Overlapping calls: add_conversation_message and the remember_content it
   awaits, one store operation at a time.  A server process runs its requests
   on one event loop, which changes request only where a handler awaits
   asyncio.to_thread (inside send_to_bedrock); requests served by different
   processes of the same store interleave at every store operation. *)

Loops == {1, 2}
OverlapOutputs == {<<0>>, <<1>>, <<2>>}
OverlapRatings == {<<>>}
OverlapTypes == {"human", "ai"}

\* the positions at which a call is off its event loop: not begun, awaiting
\* send_to_bedrock (lines 255 and 277; lines 309 and 333), returned
Suspended(pc) == pc \in {"start", "rate", "combine", "done"}

\* a result of find_similar_memories as the handler holds it: the document as it
\* was read
Snapshot(store, id) ==
    [id |-> id, importance |-> store[id].importance,
     access_count |-> store[id].access_count, embeddings |-> store[id].embeddings]

NoSnapshot == [id |-> 0, importance |-> 0, access_count |-> 0, embeddings |-> NoEmb]

\* a call that has arrived; log: the store writes it has made, in order;
\* unmatched: the _ids for which an update_one of the call matched no document
Task(loop, embeddings) ==
    [loop |-> loop, pc |-> "start", user_id |-> <<"a">>,
     embeddings |-> embeddings, memory |-> NoSnapshot,
     importance_score |-> 0, new |-> 0, cursor |-> <<>>, count |-> 0, branch |-> "none",
     significant |-> FALSE, ack |-> "", log |-> <<>>, unmatched |-> {}]

\* the event loop of task t is free for it: no other request of its process is
\* between two awaits
OnLoop(t) ==
    \A u \in DOMAIN tasks \ {t} :
        tasks[u].loop = tasks[t].loop => Suspended(tasks[u].pc)

Logged(t, op, id) == Append(tasks[t].log, [op |-> op, id |-> id])

\* update_one({"_id": id}, ...) by task t: what it has matched nothing for
Unmatched(t, id) ==
    IF id \in DOMAIN memory_nodes THEN tasks[t].unmatched
    ELSE tasks[t].unmatched \cup {id}

\* add_conversation_message, lines 135-141: a significant human message goes on
\* into remember_content, which is awaited; any other is acknowledged at once
AfterInsert(message_input) == IF IsSignificant(message_input) THEN "remember" ELSE "ack"

\* find().sort([("importance", ASCENDING)]).limit(k): the documents it can
\* return, as read
LowestSets(store, user_id, k) ==
    LET docs == UserDocs(store, user_id)
    IN {S \in SUBSET docs :
          /\ Cardinality(S) = Min(k, Cardinality(docs))
          /\ \A x \in S, y \in docs \ S : store[x].importance <= store[y].importance}

\* a request arrives at a server process (the first one at process 1)
Submit ==
    /\ Len(tasks) < MaxTasks
    /\ \E loop \in Loops, embeddings \in OverlapOutputs :
          /\ tasks = <<>> => loop = 1
          /\ tasks' = Append(tasks, Task(loop, embeddings))
    /\ UNCHANGED <<memory_nodes, conversations, nextId, calls, last>>

\* add_conversation_message, lines 129-132: the message is validated and inserted
InsertMessage ==
    \E t \in DOMAIN tasks :
       /\ OnLoop(t)
       /\ tasks[t].pc = "start"
       /\ \E type \in OverlapTypes :
          LET message_input == [user_id |-> <<"A">>, conversation_id |-> <<"c">>,
                                type |-> type, text |-> Rep("x", MIN_MEMORY_TEXT + 1),
                                timestamp |-> "none"]
              new_message == Message([message_input EXCEPT !.user_id = Lower(@)],
                                     EMBEDDING_DIM)
          IN /\ conversations' = Append(conversations, new_message.doc)
             /\ tasks' = [tasks EXCEPT ![t].pc = AfterInsert(message_input),
                                       ![t].significant = IsSignificant(message_input),
                                       ![t].log = Logged(t, "message", Len(conversations) + 1)]
       /\ UNCHANGED <<memory_nodes, nextId, calls, last>>

\* remember_content, lines 218-229: the first similarity query and the choice of
\* the branch
FirstQuery ==
    \E t \in DOMAIN tasks :
       /\ OnLoop(t)
       /\ tasks[t].pc = "remember"
       /\ \E similar_memories \in
               find_similar_memories(memory_nodes, tasks[t].user_id, tasks[t].embeddings,
                                     TOP_N, MINIMUM_SIMILARITY) :
             LET memory == ReinforceCandidate(memory_nodes, similar_memories,
                                              tasks[t].embeddings)
             IN tasks' = [tasks EXCEPT
                            ![t].memory = IF memory = 0 THEN NoSnapshot
                                          ELSE Snapshot(memory_nodes, memory),
                            ![t].branch = IF memory = 0 THEN "create" ELSE "reinforce",
                            ![t].pc = IF memory = 0 THEN "rate" ELSE "reinforce"]
       /\ calls' = calls + 1
       /\ UNCHANGED <<memory_nodes, conversations, nextId, last>>

\* ReinforceWrite as an increment made by the store ($inc, $mul) on the values
\* the document holds when the write arrives
ReinforceWriteAtomic ==
    \E t \in DOMAIN tasks :
       /\ OnLoop(t)
       /\ tasks[t].pc = "reinforce"
       /\ memory_nodes' =
             IF tasks[t].memory.id \in DOMAIN memory_nodes
             THEN UpdateOne(memory_nodes, tasks[t].memory.id,
                            Reinforced(memory_nodes[tasks[t].memory.id].importance),
                            memory_nodes[tasks[t].memory.id].access_count + 1)
             ELSE memory_nodes
       /\ tasks' = [tasks EXCEPT ![t].pc = "ack",
                                 ![t].log = Logged(t, "update", tasks[t].memory.id),
                                 ![t].unmatched = Unmatched(t, tasks[t].memory.id)]
       /\ UNCHANGED <<conversations, nextId, calls, last>>

\* lines 231-246: the reinforce branch writes what it read, multiplied and
\* incremented, and returns
ReinforceWrite ==
    \E t \in DOMAIN tasks :
       /\ OnLoop(t)
       /\ tasks[t].pc = "reinforce"
       /\ memory_nodes' = UpdateOne(memory_nodes, tasks[t].memory.id,
                                    Reinforced(tasks[t].memory.importance),
                                    tasks[t].memory.access_count + 1)
       /\ tasks' = [tasks EXCEPT ![t].pc = "ack",
                                 ![t].log = Logged(t, "update", tasks[t].memory.id),
                                 ![t].unmatched = Unmatched(t, tasks[t].memory.id)]
       /\ UNCHANGED <<conversations, nextId, calls, last>>

\* lines 255-296: the rating and the summary have come back; the new node is
\* inserted
InsertMemory ==
    \E t \in DOMAIN tasks :
       /\ OnLoop(t)
       /\ tasks[t].pc = "rate"
       /\ \E importance_rating_text \in OverlapRatings :
             LET importance_score == ImportanceScore(importance_rating_text)
                 new_memory == [user_id |-> tasks[t].user_id,
                                importance |-> importance_score, access_count |-> 0,
                                embeddings |-> tasks[t].embeddings]
             IN /\ memory_nodes' = InsertOne(memory_nodes, nextId, new_memory)
                /\ tasks' = [tasks EXCEPT ![t].importance_score = importance_score,
                                          ![t].new = nextId, ![t].pc = "query2",
                                          ![t].log = Logged(t, "insert", nextId)]
       /\ nextId' = nextId + 1
       /\ UNCHANGED <<conversations, calls, last>>

\* lines 298-301: the second similarity query and the choice of the node to merge
SecondQuery ==
    \E t \in DOMAIN tasks :
       /\ OnLoop(t)
       /\ tasks[t].pc = "query2"
       /\ \E similar_memories \in
               find_similar_memories(memory_nodes, tasks[t].user_id, tasks[t].embeddings,
                                     TOP_N, MINIMUM_SIMILARITY) :
             LET memory == MergeCandidate(memory_nodes, similar_memories,
                                          tasks[t].embeddings, tasks[t].new)
             IN tasks' = [tasks EXCEPT
                            ![t].memory = IF memory = 0 THEN NoSnapshot
                                          ELSE Snapshot(memory_nodes, memory),
                            ![t].pc = IF memory = 0 THEN "pass" ELSE "combine"]
       /\ UNCHANGED <<memory_nodes, conversations, nextId, calls, last>>

\* MergeUpdate reading the merged node again when it writes, and adding nothing
\* for a node that is gone
MergeUpdateFresh ==
    \E t \in DOMAIN tasks :
       /\ OnLoop(t)
       /\ tasks[t].pc = "combine"
       /\ \E updated_embeddings \in AvgEmbeddings(tasks[t].embeddings,
                                                  tasks[t].memory.embeddings) :
             LET present == tasks[t].memory.id \in DOMAIN memory_nodes
                 updated_importance ==
                     (Max(tasks[t].importance_score, tasks[t].memory.importance)
                        * MERGE_FACTOR_NUM) \div 10
                 updated_access_count ==
                     IF present THEN memory_nodes[tasks[t].memory.id].access_count ELSE 0
                 updated == UpdateOne(memory_nodes, tasks[t].new, updated_importance,
                                      updated_access_count)
             IN memory_nodes' =
                    IF tasks[t].new \in DOMAIN memory_nodes
                    THEN [updated EXCEPT ![tasks[t].new].embeddings = updated_embeddings]
                    ELSE memory_nodes
       /\ tasks' = [tasks EXCEPT ![t].pc = "merge_delete",
                                 ![t].log = Logged(t, "merge", tasks[t].new),
                                 ![t].unmatched = Unmatched(t, tasks[t].new)]
       /\ UNCHANGED <<conversations, nextId, calls, last>>

\* lines 317-352: the combined text and its summary have come back; the new node
\* takes the larger importance * 1.1, its own count plus the merged node's, and
\* the average vector
MergeUpdate ==
    \E t \in DOMAIN tasks :
       /\ OnLoop(t)
       /\ tasks[t].pc = "combine"
       /\ \E updated_embeddings \in AvgEmbeddings(tasks[t].embeddings,
                                                  tasks[t].memory.embeddings) :
             LET updated_importance ==
                     (Max(tasks[t].importance_score, tasks[t].memory.importance)
                        * MERGE_FACTOR_NUM) \div 10
                 updated_access_count == 0 + tasks[t].memory.access_count
                 updated == UpdateOne(memory_nodes, tasks[t].new, updated_importance,
                                      updated_access_count)
             IN memory_nodes' =
                    IF tasks[t].new \in DOMAIN memory_nodes
                    THEN [updated EXCEPT ![tasks[t].new].embeddings = updated_embeddings]
                    ELSE memory_nodes
       /\ tasks' = [tasks EXCEPT ![t].pc = "merge_delete",
                                 ![t].log = Logged(t, "merge", tasks[t].new),
                                 ![t].unmatched = Unmatched(t, tasks[t].new)]
       /\ UNCHANGED <<conversations, nextId, calls, last>>

\* line 353: the merged node is deleted
MergeDelete ==
    \E t \in DOMAIN tasks :
       /\ OnLoop(t)
       /\ tasks[t].pc = "merge_delete"
       /\ memory_nodes' = DeleteOne(memory_nodes, tasks[t].memory.id)
       /\ tasks' = [tasks EXCEPT ![t].pc = "pass",
                                 ![t].log = Logged(t, "delete", tasks[t].memory.id)]
       /\ UNCHANGED <<conversations, nextId, calls, last>>

RECURSIVE Snapshots(_, _)
Snapshots(store, ids) ==
    IF ids = <<>> THEN <<>>
    ELSE <<Snapshot(store, Head(ids))>> \o Snapshots(store, Tail(ids))

\* update_importance, line 179: the cursor over the user's documents
PassFind ==
    \E t \in DOMAIN tasks :
       /\ OnLoop(t)
       /\ tasks[t].pc = "pass"
       /\ LET cursor == Snapshots(memory_nodes,
                                  Cursor(UserDocs(memory_nodes, tasks[t].user_id)))
          IN tasks' = [tasks EXCEPT ![t].cursor = cursor,
                                    ![t].pc = IF cursor = <<>> THEN "prune"
                                              ELSE "pass_write"]
       /\ UNCHANGED <<memory_nodes, conversations, nextId, calls, last>>

\* update_importance, lines 180-196: one document of the cursor is compared and
\* written with what the cursor read of it
PassWrite ==
    \E t \in DOMAIN tasks :
       /\ OnLoop(t)
       /\ tasks[t].pc = "pass_write"
       /\ LET doc == Head(tasks[t].cursor)
              rest == Tail(tasks[t].cursor)
          IN \E similarity \in cosine_similarity(tasks[t].embeddings, doc.embeddings) :
                IF similarity.raised
                THEN /\ tasks' = [tasks EXCEPT ![t].pc = "ack",
                                               ![t].branch = "error"]
                     /\ UNCHANGED memory_nodes
                ELSE LET reinforce == similarity.value > SIMILARITY_THRESHOLD
                     IN /\ memory_nodes' =
                             UpdateOne(memory_nodes, doc.id,
                                       IF reinforce THEN Reinforced(doc.importance)
                                       ELSE Decayed(doc.importance),
                                       IF reinforce THEN doc.access_count + 1
                                       ELSE doc.access_count)
                        /\ tasks' = [tasks EXCEPT
                                       ![t].cursor = rest,
                                       ![t].pc = IF rest = <<>> THEN "prune"
                                                 ELSE "pass_write",
                                       ![t].log = Logged(t, "update", doc.id),
                                       ![t].unmatched = Unmatched(t, doc.id)]
       /\ UNCHANGED <<conversations, nextId, calls, last>>

\* prune_memories, lines 201-202: count_documents and the test against MAX_DEPTH
PruneCount ==
    \E t \in DOMAIN tasks :
       /\ OnLoop(t)
       /\ tasks[t].pc = "prune"
       /\ LET count == Cardinality(UserDocs(memory_nodes, tasks[t].user_id))
          IN tasks' = [tasks EXCEPT ![t].count = IF count > MAX_DEPTH THEN count ELSE 0,
                                    ![t].pc = IF count > MAX_DEPTH THEN "prune_find"
                                              ELSE "ack"]
       /\ UNCHANGED <<memory_nodes, conversations, nextId, calls, last>>

\* PruneFind with a limit one above the excess
PruneFindOneMore ==
    \E t \in DOMAIN tasks :
       /\ OnLoop(t)
       /\ tasks[t].pc = "prune_find"
       /\ \E S \in LowestSets(memory_nodes, tasks[t].user_id,
                              tasks[t].count - MAX_DEPTH + 1) :
             tasks' = [tasks EXCEPT ![t].cursor = Snapshots(memory_nodes, Cursor(S)),
                                    ![t].count = 0,
                                    ![t].pc = IF S = {} THEN "ack" ELSE "prune_delete"]
       /\ UNCHANGED <<memory_nodes, conversations, nextId, calls, last>>

\* prune_memories, lines 204-210: the query for the count - MAX_DEPTH least
\* important documents, with the count read before, run when the loop starts
PruneFind ==
    \E t \in DOMAIN tasks :
       /\ OnLoop(t)
       /\ tasks[t].pc = "prune_find"
       /\ \E S \in LowestSets(memory_nodes, tasks[t].user_id, tasks[t].count - MAX_DEPTH) :
             tasks' = [tasks EXCEPT ![t].cursor = Snapshots(memory_nodes, Cursor(S)),
                                    ![t].count = 0,
                                    ![t].pc = IF S = {} THEN "ack" ELSE "prune_delete"]
       /\ UNCHANGED <<memory_nodes, conversations, nextId, calls, last>>

\* prune_memories, lines 210-211: one document of the cursor is deleted, the
\* least important first
PruneDelete ==
    \E t \in DOMAIN tasks :
       /\ OnLoop(t)
       /\ tasks[t].pc = "prune_delete"
       /\ \E k \in DOMAIN tasks[t].cursor :
             LET doc == tasks[t].cursor[k]
                 rest == [j \in 1 .. Len(tasks[t].cursor) - 1 |->
                            IF j < k THEN tasks[t].cursor[j] ELSE tasks[t].cursor[j + 1]]
             IN /\ \A j \in DOMAIN tasks[t].cursor :
                      doc.importance <= tasks[t].cursor[j].importance
                /\ memory_nodes' = DeleteOne(memory_nodes, doc.id)
                /\ tasks' = [tasks EXCEPT
                               ![t].cursor = rest,
                               ![t].pc = IF rest = <<>> THEN "ack"
                                         ELSE "prune_delete",
                               ![t].log = Logged(t, "delete", doc.id)]
       /\ UNCHANGED <<conversations, nextId, calls, last>>

\* Acknowledge with remember_content left as a detached task: the
\* acknowledgement is returned as soon as the message is inserted
AcknowledgeDetached ==
    \E t \in DOMAIN tasks :
       /\ OnLoop(t)
       /\ \/ tasks[t].pc = "ack"
          \/ tasks[t].pc = "remember" /\ tasks[t].ack = ""
       /\ tasks' = [tasks EXCEPT ![t].pc = IF tasks[t].pc = "ack" THEN "done"
                                           ELSE tasks[t].pc,
                                 ![t].ack = "Message added successfully",
                                 ![t].log = IF tasks[t].ack = "" THEN Logged(t, "ack", 0)
                                            ELSE tasks[t].log]
       /\ UNCHANGED <<memory_nodes, conversations, nextId, calls, last>>

\* add_conversation_message, line 150: the acknowledgement is returned
Acknowledge ==
    \E t \in DOMAIN tasks :
       /\ OnLoop(t)
       /\ tasks[t].pc = "ack"
       /\ tasks' = [tasks EXCEPT ![t].pc = "done",
                                 ![t].ack = "Message added successfully",
                                 ![t].log = Logged(t, "ack", 0)]
       /\ UNCHANGED <<memory_nodes, conversations, nextId, calls, last>>

\* the stores overlapping calls meet: what one remember_content call has left
SeedStores ==
    {r.store : r \in UNION {remember_content(<<>>, 1, <<"A">>, <<"m">>, <<0>>,
                                             importance_rating_text, "none")
                            : importance_rating_text \in OverlapRatings}}

InitOverlap ==
    /\ memory_nodes \in SeedStores
    /\ conversations = <<>>
    /\ nextId = 2
    /\ calls = 1
    /\ last = NoCall
    /\ tasks = <<>>

NextOverlap ==
    \/ Submit
    \/ InsertMessage
    \/ FirstQuery
    \/ ReinforceWrite
    \/ InsertMemory
    \/ SecondQuery
    \/ MergeUpdate
    \/ MergeDelete
    \/ PassFind
    \/ PassWrite
    \/ PruneCount
    \/ PruneFind
    \/ PruneDelete
    \/ Acknowledge

SpecOverlap == InitOverlap /\ [][NextOverlap]_vars

---------------------------------------------------------------------------
(* list_all_memories *)

\* the order of .sort([("importance", DESCENDING), ("timestamp", DESCENDING)]):
\* a node created later has the later timestamp
ListedBefore(store, a, b) ==
    \/ store[a].importance > store[b].importance
    \/ store[a].importance = store[b].importance /\ a > b

\* a cursor over a set of _ids in that order
RECURSIVE ListCursor(_, _)
ListCursor(store, S) ==
    IF S = {} THEN <<>>
    ELSE LET n == CHOOSE x \in S : \A y \in S \ {x} : ListedBefore(store, x, y)
         IN <<n>> \o ListCursor(store, S \ {n})

\* a cursor over a set of _ids by descending effective importance
RECURSIVE EffectiveCursor(_, _)
EffectiveCursor(store, S) ==
    IF S = {} THEN <<>>
    ELSE LET n == CHOOSE x \in S : \A y \in S \ {x} :
                     \/ EffectiveImportance(store[x]) > EffectiveImportance(store[y])
                     \/ /\ EffectiveImportance(store[x]) = EffectiveImportance(store[y])
                        /\ ListedBefore(store, x, y)
         IN <<n>> \o EffectiveCursor(store, S \ {n})

\* the result rows of a cursor
ListRows(store, cursor) ==
    [i \in DOMAIN cursor |->
       [id |-> cursor[i], user_id |-> store[cursor[i]].user_id,
        importance |-> store[cursor[i]].importance,
        access_count |-> store[cursor[i]].access_count,
        effective_importance |-> EffectiveImportance(store[cursor[i]])]]

\* list_all_memories re-sorting the rows on the effective importance
ListAllMemoriesEffective(store, request_user_id) ==
    ListRows(store, EffectiveCursor(store, UserDocs(store, Lower(request_user_id))))

\* list_all_memories(user_id), lines 13-78
list_all_memories(store, request_user_id) ==
    ListRows(store, ListCursor(store, UserDocs(store, Lower(request_user_id))))

ListRatings == {<<>>, <<"6">>}

\* one remember_content call before a listing
RememberList ==
    /\ calls < MaxListCalls
    /\ \E request_user_id \in TenantUserIds, model \in OverlapOutputs,
          importance_rating_text \in ListRatings :
         \E r \in remember_content(memory_nodes, nextId, request_user_id, <<"m">>, model,
                                   importance_rating_text, "none") :
            /\ memory_nodes' = r.store
            /\ nextId' = r.nextId
            /\ calls' = calls + 1
            /\ last' = LastOf(request_user_id, <<"m">>, model, r)
    /\ UNCHANGED <<conversations, tasks>>

\* GET /memories/{user_id}
ListAllMemories ==
    /\ \E request_user_id \in TenantUserIds :
          last' = [op |-> "list", user_id |-> request_user_id,
                   results |-> list_all_memories(memory_nodes, request_user_id)]
    /\ UNCHANGED <<memory_nodes, conversations, nextId, calls, tasks>>

NextList == RememberList \/ ListAllMemories

SpecList == Init /\ [][NextList]_vars

---------------------------------------------------------------------------
(* validate_search_indexes and get_index_status
   (_Workshop/solutions/database/index_validator.py) *)

REQUIRED_INDEXES ==
    [conversations |-> <<"conversations_vector_search_index",
                         "conversations_fulltext_search_index">>,
     memory_nodes |-> <<"memory_nodes_vector_search_index">>]

Range(seq) == {seq[i] : i \in DOMAIN seq}

all_indexes == Range(REQUIRED_INDEXES.conversations) \cup Range(REQUIRED_INDEXES.memory_nodes)

\* the index names a collection can list: the required ones and one more
IndexNames == all_indexes \cup {"default"}

\* what list_search_indexes() of a collection can do: give the names, or raise
Listings ==
    {[raised |-> FALSE, names |-> S] : S \in SUBSET IndexNames}
        \cup {[raised |-> TRUE, names |-> {}]}

\* "vector" if "vector" in idx_name else "search"
IndexType(idx_name) ==
    IF idx_name = "conversations_fulltext_search_index" THEN "search" ELSE "vector"

\* the entry of the except branch
ErrorEntry == [exists |-> FALSE, collection |-> "unknown", error |-> "str(e)"]

\* validate_search_indexes whose except branch fills in only the indexes not
\* yet checked
ValidateSearchIndexesKeepsChecked(conv, mem) ==
    [idx_name \in all_indexes |->
       IF idx_name \in Range(REQUIRED_INDEXES.conversations)
       THEN IF conv.raised THEN ErrorEntry
            ELSE [exists |-> idx_name \in conv.names, collection |-> "conversations",
                  type |-> IndexType(idx_name)]
       ELSE IF conv.raised \/ mem.raised THEN ErrorEntry
            ELSE [exists |-> idx_name \in mem.names, collection |-> "memory_nodes",
                  type |-> "vector"]]

\* validate_search_indexes() on what the two collections list (lines 29-90)
validate_search_indexes(conv, mem) ==
    IF conv.raised \/ mem.raised
    THEN [idx_name \in all_indexes |-> ErrorEntry]
    ELSE [idx_name \in all_indexes |->
            IF idx_name \in Range(REQUIRED_INDEXES.conversations)
            THEN [exists |-> idx_name \in conv.names, collection |-> "conversations",
                  type |-> IndexType(idx_name)]
            ELSE [exists |-> idx_name \in mem.names, collection |-> "memory_nodes",
                  type |-> "vector"]]

\* get_index_status reading only the exists field
GetIndexStatusNoError(full_status) ==
    [name \in DOMAIN full_status |->
       IF full_status[name].exists THEN "exists" ELSE "missing"]

\* get_index_status() on the status validate_search_indexes returned (lines 93-112)
get_index_status(full_status) ==
    [name \in DOMAIN full_status |->
       IF "error" \in DOMAIN full_status[name] THEN "error"
       ELSE IF full_status[name].exists THEN "exists"
       ELSE "missing"]

\* a health check: both functions on what the collections list now
CheckIndexes ==
    /\ \E conv \in Listings, mem \in Listings :
          last' = [op |-> "get_index_status", conv |-> conv, mem |-> mem,
                   full_status |-> validate_search_indexes(conv, mem),
                   simple_status |-> get_index_status(validate_search_indexes(conv, mem))]
    /\ UNCHANGED <<memory_nodes, conversations, nextId, calls, tasks>>

NextIndexes == CheckIndexes

SpecIndexes == Init /\ [][NextIndexes]_vars

---------------------------------------------------------------------------
(* The importance rating of the create branch, on the texts the text generation
   can return *)

RatingAlphabet == {"0", "1", "7", ".", " ", "x"}

\* the strings over RatingAlphabet of length n
RECURSIVE RatingStrings(_)
RatingStrings(n) ==
    IF n = 0 THEN {<<>>}
    ELSE {Append(s, c) : s \in RatingStrings(n - 1), c \in RatingAlphabet}

\* what send_to_bedrock returns for the rating prompt (<<>>: None)
RatingResponses == UNION {RatingStrings(n) : n \in 0 .. MaxRatingLen}

\* lines 255-270: the rating text is received and the score derived from it
RateImportance ==
    /\ \E importance_rating_text \in RatingResponses :
          last' = [op |-> "rate", importance_rating_text |-> importance_rating_text,
                   importance_score |-> ImportanceScore(importance_rating_text)]
    /\ UNCHANGED <<memory_nodes, conversations, nextId, calls, tasks>>

NextRating == RateImportance

SpecRating == Init /\ [][NextRating]_vars

---------------------------------------------------------------------------
(* generate_embedding and send_to_bedrock (services/bedrock_service.py), with
   what the model client and the credential refresh can do *)

\* what one invocation of the model client gives: the response (ok: with the
\* field the caller reads; malformed: without it), or an exception: a ClientError
\* with the error code and message of the service, a BotoCoreError with its
\* message, or any other exception
Invocations ==
    {[kind |-> "ok", code |-> "", message |-> ""],
     [kind |-> "malformed", code |-> "", message |-> ""],
     [kind |-> "ClientError", code |-> "UnrecognizedClientException",
      message |-> "The security token included in the request is invalid."],
     [kind |-> "ClientError", code |-> "ThrottlingException",
      message |-> "Too many requests"],
     [kind |-> "ClientError", code |-> "AccessDeniedException",
      message |-> "You don't have access to the model"],
     [kind |-> "BotoCoreError", code |-> "",
      message |-> "Unable to locate credentials"],
     [kind |-> "Exception", code |-> "", message |-> "timed out"]}

\* _refresh_credentials_if_needed(): True when the script ran and exited with 0;
\* False when it exited otherwise or anything in it raised
Refreshes == {TRUE, FALSE}

\* str(e), in parts: botocore formats a ClientError as
\* "An error occurred (<code>) when calling the <operation> operation: <message>"
ErrorMsg(e) ==
    IF e.kind = "ClientError"
    THEN <<"An error occurred (", e.code, ") when calling the operation: ", e.message>>
    ELSE <<e.message>>

\* word in error_msg
Mentions(error_msg, word) == \E i \in DOMAIN error_msg : error_msg[i] = word

\* the try/except both functions share: [value, raised, invocations, refreshes];
\* ok: the value of a good response; none: the value on failure; expired: the
\* handler's test for expired credentials
Guarded(first, refreshed, second, ok, none, expired) ==
    LET Result(value, raised, invocations, refreshes) ==
            [value |-> value, raised |-> raised, invocations |-> invocations,
             refreshes |-> refreshes]
    IN IF first.kind = "ok" THEN Result(ok, FALSE, 1, 0)
       ELSE IF first.kind \in {"ClientError", "BotoCoreError"}
       THEN IF expired
            THEN IF refreshed
                 THEN IF second.kind = "ok" THEN Result(ok, FALSE, 2, 1)
                      ELSE Result(none, FALSE, 2, 1)
                 ELSE Result(none, FALSE, 1, 1)
            ELSE Result(none, FALSE, 1, 0)
       ELSE Result(none, FALSE, 1, 0)

\* generate_embedding without the try around the retry: a failure of the second
\* invocation reaches the caller
GenerateEmbeddingBareRetry(text, first, refreshed, second) ==
    LET r == Guarded(first, refreshed, second, <<0>>, NoEmb,
                     Mentions(ErrorMsg(first), "UnrecognizedClientException"))
    IN IF Strip(text) = <<>>
       THEN [value |-> NoEmb, raised |-> FALSE, invocations |-> 0, refreshes |-> 0]
       ELSE IF r.invocations = 2 /\ second.kind # "ok" THEN [r EXCEPT !.raised = TRUE]
       ELSE r

\* generate_embedding(text) with its model invocations (lines 84-133)
GenerateEmbedding(text, first, refreshed, second) ==
    IF Strip(text) = <<>>
    THEN [value |-> NoEmb, raised |-> FALSE, invocations |-> 0, refreshes |-> 0]
    ELSE Guarded(first, refreshed, second, <<0>>, NoEmb,
                 Mentions(ErrorMsg(first), "UnrecognizedClientException"))

\* send_to_bedrock refreshing the credentials on every ClientError
SendToBedrockAlwaysRefresh(first, refreshed, second) ==
    Guarded(first, refreshed, second, <<"7">>, "None", first.kind = "ClientError")

\* send_to_bedrock(prompt) (lines 135-184)
send_to_bedrock(first, refreshed, second) ==
    Guarded(first, refreshed, second, <<"7">>, "None",
            \/ Mentions(ErrorMsg(first), "UnrecognizedClientException")
            \/ first.code = "UnrecognizedClientException")

\* no call of the two made yet
NoBedrockCall ==
    [op |-> "none", text |-> <<>>, first |-> CHOOSE e \in Invocations : e.kind = "ok",
     refreshed |-> FALSE, second |-> CHOOSE e \in Invocations : e.kind = "ok",
     value |-> NoEmb, raised |-> FALSE, invocations |-> 0, refreshes |-> 0]

\* what `last` records of a call with result r
BedrockCall(op, text, first, refreshed, second, r) ==
    [op |-> op, text |-> text, first |-> first, refreshed |-> refreshed,
     second |-> second, value |-> r.value, raised |-> r.raised,
     invocations |-> r.invocations, refreshes |-> r.refreshes]

InitBedrock ==
    /\ memory_nodes = <<>>
    /\ conversations = <<>>
    /\ nextId = 1
    /\ calls = 0
    /\ last = NoBedrockCall
    /\ tasks = <<>>

CallGenerateEmbedding ==
    /\ \E text \in Contents, first \in Invocations, refreshed \in Refreshes,
          second \in Invocations :
         last' = BedrockCall("generate_embedding", text, first, refreshed, second,
                             GenerateEmbedding(text, first, refreshed, second))
    /\ UNCHANGED <<memory_nodes, conversations, nextId, calls, tasks>>

CallSendToBedrock ==
    /\ \E first \in Invocations, refreshed \in Refreshes, second \in Invocations :
         last' = BedrockCall("send_to_bedrock", <<"m">>, first, refreshed, second,
                             send_to_bedrock(first, refreshed, second))
    /\ UNCHANGED <<memory_nodes, conversations, nextId, calls, tasks>>

NextBedrock == CallGenerateEmbedding \/ CallSendToBedrock

SpecBedrock == InitBedrock /\ [][NextBedrock]_vars

---------------------------------------------------------------------------
(* hybrid_search and search_memory (services/conversation_service.py) *)

\* scores are in thousandths; NoScore is the null of a modality that did not
\* return the document
NoScore == 0 - 1

SetMax(S) == CHOOSE x \in S : \A y \in S : y <= x

\* {"$ifNull": [score, 0]}
IfNull(score) == IF score = NoScore THEN 0 ELSE score

\* the user's documents in the conversations collection (by position)
ConvDocs(docs, user_id) == {i \in DOMAIN docs : docs[i].user_id = user_id}

\* {"$sort": {key: -1}}: the orders the documents of S can come out in, ties in
\* any order
RECURSIVE Descending(_, _)
Descending(S, key) ==
    IF S = {} THEN {<<>>}
    ELSE UNION {{<<x>> \o t : t \in Descending(S \ {x}, key)}
                : x \in {x \in S : \A y \in S : key[y] <= key[x]}}

\* $vectorSearch with "limit": the `limit` nearest of the user's documents
TopSets(S, score, limit) ==
    {V \in SUBSET S :
       /\ Cardinality(V) = Min(limit, Cardinality(S))
       /\ \A x \in V, y \in S \ V : score[x] >= score[y]}

\* the first `limit` elements of a sequence
Limit(seq, limit) == SubSeq(seq, 1, Min(limit, Len(seq)))

\* hybrid_search with the two modalities each normalized by the best score of the
\* other's candidate set
HybridSearchCrossNormalized(docs, fts, vs, user_id, weight, top_n) ==
    LET mine == ConvDocs(docs, user_id)
        F == {i \in mine : fts[i] > 0}
    IN UNION {
         LET maxF == SetMax({fts[i] : i \in F} \cup {vs[i] : i \in V})
             maxV == maxF
             ids == F \cup V
             row == [i \in ids |->
                       LET f == IF i \in F THEN (fts[i] * 1000) \div maxF ELSE NoScore
                           v == IF i \in V THEN (vs[i] * 1000) \div maxV ELSE NoScore
                       IN [id |-> i, fts_score |-> f, vs_score |-> v,
                           score |-> (weight * IfNull(v) + (1000 - weight) * IfNull(f))
                                        \div 1000]]
             key == [i \in ids |-> row[i].score]
         IN {[k \in DOMAIN Limit(r, top_n) |-> row[r[k]]] : r \in Descending(ids, key)}
         : V \in TopSets({i \in mine : vs[i] > 0}, vs, top_n)}

\* hybrid_search with the vector scores left as the store gives them
HybridSearchRawVectorScore(docs, fts, vs, user_id, weight, top_n) ==
    LET mine == ConvDocs(docs, user_id)
        F == {i \in mine : fts[i] > 0}
    IN UNION {
         LET maxF == SetMax({fts[i] : i \in F})
             ids == F \cup V
             row == [i \in ids |->
                       LET f == IF i \in F THEN (fts[i] * 1000) \div maxF ELSE NoScore
                           v == IF i \in V THEN vs[i] ELSE NoScore
                       IN [id |-> i, fts_score |-> f, vs_score |-> v,
                           score |-> (weight * IfNull(v) + (1000 - weight) * IfNull(f))
                                        \div 1000]]
             key == [i \in ids |-> row[i].score]
         IN {[k \in DOMAIN Limit(r, top_n) |-> row[r[k]]] : r \in Descending(ids, key)}
         : V \in TopSets({i \in mine : vs[i] > 0}, vs, top_n)}

\* hybrid_search(query, vector_query, user_id, weight, top_n): the result lists it
\* can return.  fts[i]: the searchScore of document i for the query (0: no match);
\* vs[i]: its vectorSearchScore for the query vector (0: the vector index does
\* not hold the document).
hybrid_search(docs, fts, vs, user_id, weight, top_n) ==
    LET mine == ConvDocs(docs, user_id)
        F == {i \in mine : fts[i] > 0}
    IN UNION {
         LET maxF == SetMax({fts[i] : i \in F})
             maxV == SetMax({vs[i] : i \in V})
             ids == F \cup V
             row == [i \in ids |->
                       LET f == IF i \in F THEN (fts[i] * 1000) \div maxF ELSE NoScore
                           v == IF i \in V THEN (vs[i] * 1000) \div maxV ELSE NoScore
                       IN [id |-> i, fts_score |-> f, vs_score |-> v,
                           score |-> (weight * IfNull(v) + (1000 - weight) * IfNull(f))
                                        \div 1000]]
             key == [i \in ids |-> row[i].score]
         IN {[k \in DOMAIN Limit(r, top_n) |-> row[r[k]]] : r \in Descending(ids, key)}
         : V \in TopSets({i \in mine : vs[i] > 0}, vs, top_n)}

\* lines 192-222: the full-text pipeline of the fallback path
FullTextSearch(docs, fts, user_id) ==
    LET F == {i \in ConvDocs(docs, user_id) : fts[i] >= MINIMUM_FULLTEXT_SCORE}
        key == [i \in F |-> fts[i]]
    IN {[k \in DOMAIN Limit(r, FULLTEXT_LIMIT) |->
           [id |-> r[k], fts_score |-> fts[r[k]], vs_score |-> NoScore,
            score |-> fts[r[k]]]]
        : r \in Descending(F, key)}

\* a response of search_memory
Response(documents, total_results, search_type, vector_searched, candidates) ==
    [raised |-> FALSE, documents |-> documents, sentinel |-> documents = <<>>,
     total_results |-> total_results, relevant_results |-> Len(documents),
     search_type |-> search_type, vector_searched |-> vector_searched,
     candidates |-> candidates]

SearchFailed(vector_searched) ==
    [NoResponse EXCEPT !.raised = TRUE, !.vector_searched = vector_searched]

\* search_memory returning every hybrid result, whatever its score
SearchMemoryUnfiltered(docs, request_user_id, vector_query, fts, vs, fail) ==
    LET user_id == Lower(request_user_id)
    IN IF vector_query = NoEmb
       THEN IF fail THEN {SearchFailed(FALSE)}
            ELSE {Response(results, Len(results), "atlas_fulltext_only", FALSE, results)
                  : results \in FullTextSearch(docs, fts, user_id)}
       ELSE IF fail THEN {SearchFailed(TRUE)}
            ELSE {Response(documents, Len(documents), "hybrid_vector_fulltext", TRUE,
                           documents)
                  : documents \in hybrid_search(docs, fts, vs, user_id, HYBRID_WEIGHT,
                                                HYBRID_TOP_N)}

\* search_memory tagging every response as a hybrid one
SearchMemoryOneTag(docs, request_user_id, vector_query, fts, vs, fail) ==
    LET user_id == Lower(request_user_id)
    IN IF vector_query = NoEmb
       THEN IF fail THEN {SearchFailed(FALSE)}
            ELSE {Response(results, Len(results), "hybrid_vector_fulltext", FALSE, results)
                  : results \in FullTextSearch(docs, fts, user_id)}
       ELSE IF fail THEN {SearchFailed(TRUE)}
            ELSE {Response(SelectSeq(documents,
                                     LAMBDA doc : doc.score >= MINIMUM_HYBRID_SCORE),
                           Len(documents), "hybrid_vector_fulltext", TRUE, documents)
                  : documents \in hybrid_search(docs, fts, vs, user_id, HYBRID_WEIGHT,
                                                HYBRID_TOP_N)}

\* search_memory(user_id, query): the responses it can give.  vector_query: what
\* generate_embedding(query) returns; fail: the aggregation raises.
search_memory(docs, request_user_id, vector_query, fts, vs, fail) ==
    LET user_id == Lower(request_user_id)
    IN IF vector_query = NoEmb
       THEN IF fail THEN {SearchFailed(FALSE)}
            ELSE {Response(results, Len(results), "atlas_fulltext_only", FALSE, results)
                  : results \in FullTextSearch(docs, fts, user_id)}
       ELSE IF fail THEN {SearchFailed(TRUE)}
            ELSE {Response(SelectSeq(documents,
                                     LAMBDA doc : doc.score >= MINIMUM_HYBRID_SCORE),
                           Len(documents), "hybrid_vector_fulltext", TRUE, documents)
                  : documents \in hybrid_search(docs, fts, vs, user_id, HYBRID_WEIGHT,
                                                HYBRID_TOP_N)}

\* the stores a search runs on: messages as add_conversation_message persists them
SearchUsers == {<<"a">>, <<"b">>}
SearchDocs ==
    {[user_id |-> u, conversation_id |-> <<"c">>, type |-> "human", text |-> <<"x">>,
      timestamp |-> "none", embeddings |-> EMBEDDING_DIM] : u \in SearchUsers}
SearchStores == UNION {[1 .. n -> SearchDocs] : n \in 0 .. MaxDocs}

\* searchScore (0: the document does not match) and vectorSearchScore (0: the
\* document is not in the vector index, which may be missing or still building)
\* of a document for the query, in thousandths
FtsScores == {0, 3000, 6000}
VsScores == {0, 600, 800}
QueryUsers == {<<"A">>, <<"b">>}
QueryVectors == {NoEmb, <<0>>}
Weights == {500, 800}
TopNs == {1, 2}

InitSearch ==
    /\ memory_nodes = <<>>
    /\ conversations \in SearchStores
    /\ nextId = 1
    /\ calls = 0
    /\ last = NoCall
    /\ tasks = <<>>

\* the scores of the documents of the other users play no part: they are fixed
ScoresOf(docs, user_id, scores, other) ==
    {[i \in DOMAIN docs |-> IF i \in ConvDocs(docs, user_id) THEN g[i] ELSE other]
     : g \in [ConvDocs(docs, user_id) -> scores]}

\* one search_memory call on the store (a search changes nothing: each behaviour
\* makes one)
SearchMemory ==
    /\ last.op = "none"
    /\ \E request_user_id \in QueryUsers, vector_query \in QueryVectors, fail \in BOOLEAN :
       \E fts \in ScoresOf(conversations, Lower(request_user_id), FtsScores, 6000),
          vs \in IF vector_query = NoEmb
                 THEN {[i \in DOMAIN conversations |-> 0]}
                 ELSE ScoresOf(conversations, Lower(request_user_id), VsScores, 800) :
         \E response \in search_memory(conversations, request_user_id, vector_query,
                                       fts, vs, fail) :
            last' = [NoCall EXCEPT !.op = "search", !.user_id = Lower(request_user_id),
                                   !.embeddings = vector_query, !.fts = fts, !.vs = vs,
                                   !.weight = HYBRID_WEIGHT, !.top_n = HYBRID_TOP_N,
                                   !.response = response]
    /\ UNCHANGED <<memory_nodes, conversations, nextId, calls, tasks>>

\* one hybrid_search call on the store
HybridSearch ==
    /\ last.op = "none"
    /\ \E user_id \in SearchUsers, weight \in Weights, top_n \in TopNs :
       \E fts \in ScoresOf(conversations, user_id, FtsScores, 6000),
          vs \in ScoresOf(conversations, user_id, VsScores, 800) :
         \E documents \in hybrid_search(conversations, fts, vs, user_id, weight, top_n) :
            last' = [NoCall EXCEPT !.op = "hybrid_search", !.user_id = user_id,
                                   !.embeddings = <<0>>, !.fts = fts, !.vs = vs,
                                   !.weight = weight, !.top_n = top_n,
                                   !.response = Response(documents, Len(documents), "",
                                                         TRUE, documents)]
    /\ UNCHANGED <<memory_nodes, conversations, nextId, calls, tasks>>

NextSearch == SearchMemory \/ HybridSearch

SpecSearch == InitSearch /\ [][NextSearch]_vars

---------------------------------------------------------------------------
(* find_similar_memories on its own *)

\* the stores a query runs on: memory nodes as remember_content leaves them
FindUsers == {<<"a">>, <<"b">>}
FindWeights == {[importance |-> 500, access_count |-> 0],
                [importance |-> 1000, access_count |-> 0],
                [importance |-> 500, access_count |-> 3]}
FindEmbeddings == {<<0>>, <<1>>, <<3>>}
FindDocs ==
    {[user_id |-> <<"a">>, importance |-> w.importance, access_count |-> w.access_count,
      embeddings |-> e] : w \in FindWeights, e \in FindEmbeddings}
    \cup {[user_id |-> <<"b">>, importance |-> 1000, access_count |-> 0,
            embeddings |-> <<1>>]}
FindStores == UNION {[1 .. n -> FindDocs] : n \in 0 .. MaxNodes}

FindQueryUsers == {<<"A">>, <<"b">>}
FindQueryVectors == {NoEmb, <<1>>}
FindTopNs == {1, 2}
MinimumSimilarities == {MINIMUM_SIMILARITY, 800}

InitFind ==
    /\ memory_nodes \in FindStores
    /\ conversations = <<>>
    /\ nextId = MaxNodes + 1
    /\ calls = 0
    /\ last = NoCall
    /\ tasks = <<>>

\* one find_similar_memories call on the store (a query changes nothing: each
\* behaviour makes one); fail: the aggregation fails and the call re-raises
FindSimilarMemories ==
    /\ last.op = "none"
    /\ \E user_id \in FindQueryUsers, embedding \in FindQueryVectors, top_n \in FindTopNs,
          minimum_similarity \in MinimumSimilarities, fail \in BOOLEAN :
         \E results \in IF fail THEN {<<>>}
                         ELSE find_similar_memories(memory_nodes, user_id, embedding, top_n,
                                                    minimum_similarity) :
            last' = [NoCall EXCEPT !.op = "find", !.user_id = user_id,
                                   !.embeddings = embedding, !.top_n = top_n,
                                   !.minimum_similarity = minimum_similarity,
                                   !.raised = fail, !.similar = results]
    /\ UNCHANGED <<memory_nodes, conversations, nextId, calls, tasks>>

NextFind == FindSimilarMemories

SpecFind == InitFind /\ [][NextFind]_vars

---------------------------------------------------------------------------
(* Claims on the memory engine (checked under Spec) *)

\* the step is a remember_content call (every call counts in `calls`)
RememberStep == last'.op = "remember" /\ calls' = calls + 1

Count(store, user_id) == Cardinality(UserDocs(store, user_id))

\* C1: when the first similarity query returns a candidate with similarity > 0.85,
\* the call creates no node, raises the access_count of exactly one existing node
\* by 1 and returns "Reinforced existing memory" with that node's id.
C1_ReinforceShortCircuit ==
    [][(/\ RememberStep
        /\ \E i \in DOMAIN last'.similar :
              Similarity(memory_nodes, last'.similar[i], last'.embeddings) > HIGH_SIMILARITY)
       => /\ DOMAIN memory_nodes' = DOMAIN memory_nodes
          /\ nextId' = nextId
          /\ last'.message = "Reinforced existing memory"
          /\ last'.memory_id \in UserDocs(memory_nodes, last'.user_id)
          /\ \A n \in DOMAIN memory_nodes :
                memory_nodes'[n].access_count =
                    IF n = last'.memory_id THEN memory_nodes[n].access_count + 1
                    ELSE memory_nodes[n].access_count]_vars

C1_Witness ==
    /\ last.op = "remember"
    /\ last.branch = "reinforce"
    /\ last.message = "Reinforced existing memory"
    /\ Cardinality(DOMAIN memory_nodes) >= 2

\* C2: every stored node's importance lies in [0.1, 1.0].
C2_ImportanceInRange ==
    \A n \in DOMAIN memory_nodes :
        /\ memory_nodes[n].importance >= MIN_IMPORTANCE
        /\ memory_nodes[n].importance <= MAX_IMPORTANCE

\* C3 as claimed: a user with more than MAX_DEPTH nodes before a remember call has
\* exactly MAX_DEPTH after the call completes, whichever branch fired.
C3_AnyBranchPrunes ==
    (/\ last.op = "remember"
     /\ last.branch \in {"reinforce", "create"}
     /\ ~last.raised
     /\ last.before > MAX_DEPTH)
    => Count(memory_nodes, last.user_id) = MAX_DEPTH

\* C3 amended: a user with more than MAX_DEPTH nodes before a remember call has
\* exactly MAX_DEPTH after the call, when the call took the create branch and
\* returned its "Remembered" result.
C3_CreateBranchPrunes ==
    (/\ last.op = "remember"
     /\ last.branch = "create"
     /\ ~last.raised
     /\ last.before > MAX_DEPTH)
    => Count(memory_nodes, last.user_id) = MAX_DEPTH

C3_Witness ==
    /\ last.op = "remember"
    /\ last.branch = "create"
    /\ ~last.raised
    /\ last.message = "Remembered"
    /\ last.before > MAX_DEPTH

\* the importance the call's last write left on node n (the node is in last.writes)
WrittenImportance(n) ==
    LET at == {i \in DOMAIN last.writes : last.writes[i].id = n}
    IN last.writes[CHOOSE i \in at : \A j \in at : j <= i].importance

Written(n) == \E i \in DOMAIN last.writes : last.writes[i].id = n

\* the user's nodes that k or more of the user's other nodes do not undercut: the
\* k least important ones when importances are distinct
Lowest(store, user_id, k) ==
    {n \in UserDocs(store, user_id) :
       Cardinality({m \in UserDocs(store, user_id) :
                      store[m].importance < store[n].importance}) < k}

DistinctImportances(store, user_id) ==
    \A m, n \in UserDocs(store, user_id) :
        m # n => store[m].importance # store[n].importance

\* C4 as claimed: when a call prunes a user whose nodes have distinct importances
\* and k of them are in excess of MAX_DEPTH, the k nodes of lowest importance
\* before the call are absent after it.
C4_PrunesLowestBeforeCall ==
    [][(/\ RememberStep
        /\ ~last'.raised
        /\ last'.pruned # {}
        /\ DistinctImportances(memory_nodes, last'.user_id)
        /\ Count(memory_nodes, last'.user_id) > MAX_DEPTH)
       => \A n \in Lowest(memory_nodes, last'.user_id,
                           Count(memory_nodes, last'.user_id) - MAX_DEPTH) :
             n \notin DOMAIN memory_nodes']_vars

\* C4 amended: the nodes a call prunes are the least important ones as ranked when
\* the prune pass runs, after the call's merge and reinforce/decay pass and with
\* the new node among them: no pruned node was then more important than a node
\* that stays, and the user is left with MAX_DEPTH nodes.
C4_PrunesLowestAtPrune ==
    (last.op = "remember" /\ ~last.raised /\ last.pruned # {})
    => /\ last.branch = "create"
       /\ Count(memory_nodes, last.user_id) = MAX_DEPTH
       /\ \A p \in last.pruned :
             /\ p \notin DOMAIN memory_nodes
             /\ Written(p)
             /\ \A n \in UserDocs(memory_nodes, last.user_id) :
                   WrittenImportance(p) <= memory_nodes[n].importance

C4_Witness ==
    /\ last.op = "remember"
    /\ ~last.raised
    /\ last.before > MAX_DEPTH
    /\ Cardinality(last.pruned) >= 2
    /\ \E p \in last.pruned, n \in UserDocs(memory_nodes, last.user_id) :
          WrittenImportance(p) < memory_nodes[n].importance

\* C5: after a merging call one node stands for the new node N and the merged
\* node M, with access_count N.access_count + M.access_count (N's is 0) and
\* importance min(1.0, 1.1 * max(N.importance, M.importance)).
C5_MergedNode ==
    [][(RememberStep /\ ~last'.raised /\ last'.merged # 0)
       => /\ last'.merged \notin DOMAIN memory_nodes'
          /\ last'.new \in DOMAIN memory_nodes'
          /\ memory_nodes'[last'.new].access_count =
                 0 + memory_nodes[last'.merged].access_count
          /\ memory_nodes'[last'.new].importance =
                 Min(MAX_IMPORTANCE,
                     (Max(last'.importance, memory_nodes[last'.merged].importance)
                        * MERGE_FACTOR_NUM) \div 10)]_vars

\* the only other node of the user, with similarity s to the new content
OnlyOther(store, user_id, embeddings, n) ==
    /\ UserDocs(store, user_id) = {n}
    /\ store[n].embeddings # NoEmb
    /\ embeddings # NoEmb

\* C6 as claimed: a user's only other node, with similarity s to the new content
\* and 0.70 < s < 0.85, is merged into the new node and deleted.
C6_MergeBandFrom070 ==
    [][(/\ RememberStep
        /\ ~last'.raised
        /\ \E n \in DOMAIN memory_nodes :
              /\ OnlyOther(memory_nodes, last'.user_id, last'.embeddings, n)
              /\ MERGE_LOW < Similarity(memory_nodes, n, last'.embeddings)
              /\ Similarity(memory_nodes, n, last'.embeddings) < HIGH_SIMILARITY)
       => /\ last'.merged \in DOMAIN memory_nodes
          /\ last'.merged \notin DOMAIN memory_nodes'
          /\ last'.new \in DOMAIN memory_nodes']_vars

\* C6 amended: a user's only other node, with similarity s to the new content and
\* 0.75 <= s < 0.85 (the floor of find_similar_memories), is merged into the new
\* node and deleted.
C6_MergeBandFrom075 ==
    [][(/\ RememberStep
        /\ ~last'.raised
        /\ \E n \in DOMAIN memory_nodes :
              /\ OnlyOther(memory_nodes, last'.user_id, last'.embeddings, n)
              /\ MINIMUM_SIMILARITY <= Similarity(memory_nodes, n, last'.embeddings)
              /\ Similarity(memory_nodes, n, last'.embeddings) < HIGH_SIMILARITY)
       => /\ last'.merged \in DOMAIN memory_nodes
          /\ last'.merged \notin DOMAIN memory_nodes'
          /\ last'.new \in DOMAIN memory_nodes'
          /\ UserDocs(memory_nodes', last'.user_id) = {last'.new}]_vars

C6_Witness ==
    /\ last.op = "remember"
    /\ ~last.raised
    /\ last.before = 1
    /\ last.merged # 0
    /\ UserDocs(memory_nodes, last.user_id) = {last.new}

\* C7 as claimed: every write of a call to a node's access_count leaves it
\* unchanged or raises it by exactly 1.
C7_EveryWriteByAtMostOne ==
    \A i \in DOMAIN last.writes :
        last.writes[i].access_count \in
            {last.writes[i].access_count_old, last.writes[i].access_count_old + 1}

\* C7 amended: over a remember call the access_count of a node that stays in the
\* store never decreases: a reinforce or decay write leaves it unchanged or raises
\* it by exactly 1, and the merge write raises the new node's count from 0 to the
\* merged node's count.
C7_AccessCountMonotone ==
    [][RememberStep
       => /\ \A n \in DOMAIN memory_nodes \cap DOMAIN memory_nodes' :
                memory_nodes'[n].access_count \in
                    {memory_nodes[n].access_count, memory_nodes[n].access_count + 1}
          /\ \A i \in DOMAIN last'.writes :
                LET w == last'.writes[i]
                IN IF w.kind = "merge"
                   THEN /\ w.id = last'.new
                        /\ w.access_count_old = 0
                        /\ \E m \in DOMAIN memory_nodes :
                              w.access_count = memory_nodes[m].access_count
                   ELSE w.access_count \in {w.access_count_old, w.access_count_old + 1}]_vars

C7_Witness ==
    /\ last.op = "remember"
    /\ \E i \in DOMAIN last.writes :
          /\ last.writes[i].kind = "merge"
          /\ last.writes[i].access_count >= 2
    /\ \E i \in DOMAIN last.writes : last.writes[i].kind = "pass_reinforce"
    /\ \E i \in DOMAIN last.writes : last.writes[i].kind = "pass_decay"

---------------------------------------------------------------------------
(* Claims on message ingestion (checked under SpecIngest) *)

\* the step is an add_conversation_message call
AddMessageStep == last'.op = "add_message"

\* the document Message builds of an input: trimmed fields, lowercased user_id
MessageDoc(message_input, embedding_len) ==
    [user_id |-> Strip(Lower(message_input.user_id)),
     conversation_id |-> Strip(message_input.conversation_id),
     type |-> message_input.type, text |-> Strip(message_input.text),
     timestamp |-> message_input.timestamp, embeddings |-> embedding_len]

\* C8: when memory consolidation raises after a qualifying human message has been
\* persisted, add_conversation_message still returns the success ack and the
\* message stays in the store.
C8_ConsolidationFailureSwallowed ==
    [][(AddMessageStep /\ last'.invoked /\ last'.raised)
       => /\ last'.ack = "Message added successfully"
          /\ last'.error = ""
          /\ conversations' = Append(conversations,
                                    MessageDoc(last'.input, last'.embedding_len))]_vars

C8_Witness ==
    /\ last.op = "add_message"
    /\ last.invoked
    /\ last.raised
    /\ last.ack = "Message added successfully"
    /\ Len(conversations) = 1
    /\ conversations[1].type = "human"

\* C9: add_conversation_message invokes memory consolidation for a persisted
\* message if and only if its type is human and the length of its trimmed text
\* is greater than 30 characters.
C9_InvokedIffTrimmedTextLong ==
    (last.op = "add_message" /\ last.error = "")
    => (last.invoked <=> /\ last.input.type = "human"
                         /\ Len(Strip(last.input.text)) > MIN_MEMORY_TEXT)

Blank(s) == Strip(s) = <<>>

\* the errors that name a blank field of the input
BlankFieldErrors(message_input) ==
    {e \in {"user_id cannot be empty", "conversation_id cannot be empty",
            "Message text cannot be empty"} :
       \/ e = "user_id cannot be empty" /\ Blank(message_input.user_id)
       \/ e = "conversation_id cannot be empty" /\ Blank(message_input.conversation_id)
       \/ e = "Message text cannot be empty" /\ Blank(message_input.text)}

\* C10: ingesting a message whose user_id, conversation_id or text is empty or
\* whitespace-only fails with an error naming that field; no message is persisted
\* and no consolidation is triggered.
C10_BlankFieldRejected ==
    [][(AddMessageStep /\ BlankFieldErrors(last'.input) # {})
       => /\ last'.error \in BlankFieldErrors(last'.input)
          /\ last'.ack = ""
          /\ ~last'.invoked
          /\ conversations' = conversations
          /\ memory_nodes' = memory_nodes
          /\ calls' = calls]_vars

C10_Witness ==
    /\ last.op = "add_message"
    /\ last.error = "Message text cannot be empty"
    /\ last.input.text # <<>>
    /\ last.input.type = "human"
    /\ conversations = <<>>

\* C11 : when the embedding capability is unavailable (generate_embedding returns
\* an empty vector), add_conversation_message still persists the message, stored
\* without an embedding, and returns the success ack.
C11_EmptyEmbeddingPersists ==
    [][(AddMessageStep /\ ReachesEmbedding(last'.input) /\ last'.embedding_len = 0)
       => /\ last'.ack = "Message added successfully"
          /\ last'.error = ""
          /\ Len(conversations') = Len(conversations) + 1
          /\ conversations'[Len(conversations')].embeddings = 0]_vars

---------------------------------------------------------------------------
(* Claims on retrieval (checked under SpecSearch) *)

Relevant(doc) == doc.score >= 700

\* C14: in hybrid mode search_memory returns only documents whose hybrid score is
\* >= 0.70; if no candidate reaches 0.70 it returns the "No documents found"
\* sentinel with relevant_results = 0 and total_results equal to the number of
\* candidates hybrid search produced.
C14_HybridFloor ==
    (last.op = "search" /\ last.embeddings # NoEmb /\ ~last.response.raised)
    => LET r == last.response
       IN /\ r.candidates \in hybrid_search(conversations, last.fts, last.vs, last.user_id,
                                             800, 10)
          /\ r.documents = SelectSeq(r.candidates, Relevant)
          /\ \A k \in DOMAIN r.documents : r.documents[k].score >= 700
          /\ r.total_results = Len(r.candidates)
          /\ r.relevant_results = Len(r.documents)
          /\ r.sentinel <=> (\A k \in DOMAIN r.candidates : r.candidates[k].score < 700)
          /\ r.sentinel => r.relevant_results = 0

C14_Witness ==
    /\ last.op = "search"
    /\ last.embeddings # NoEmb
    /\ ~last.response.raised
    /\ last.response.sentinel
    /\ last.response.relevant_results = 0
    /\ last.response.total_results = 2

\* C15: search_memory runs in full-text-only mode exactly when the query embedding
\* is empty: then no vector search is executed and every response carries
\* search_type = atlas_fulltext_only; otherwise every response carries
\* search_type = hybrid_vector_fulltext.
C15_SearchTypeByEmbedding ==
    (last.op = "search")
    => /\ last.response.vector_searched <=> last.embeddings # NoEmb
       /\ ~last.response.raised
             => last.response.search_type =
                    IF last.embeddings = NoEmb THEN "atlas_fulltext_only"
                    ELSE "hybrid_vector_fulltext"

C15_Witness ==
    /\ last.op = "search"
    /\ last.embeddings = NoEmb
    /\ ~last.response.raised
    /\ last.response.search_type = "atlas_fulltext_only"
    /\ last.response.documents # <<>>
    /\ Len(last.response.documents) < Cardinality(ConvDocs(conversations, last.user_id))

\* the user's documents the full-text search matches, and the best scores
Matches(user_id) == {i \in ConvDocs(conversations, user_id) : last.fts[i] > 0}
BestFts(user_id) == SetMax({last.fts[i] : i \in Matches(user_id)})
InVectorIndex(user_id) == {i \in ConvDocs(conversations, user_id) : last.vs[i] > 0}
BestVs(user_id) == SetMax({last.vs[i] : i \in InVectorIndex(user_id)})

\* C16: hybrid_search returns each matching document once, with hybrid score
\* weight * v + (1 - weight) * f, v and f the document's vector and full-text
\* scores divided by the maximum of their own candidate set, a missing modality
\* counting as 0; the results are sorted by hybrid score descending and at most
\* top_n are returned.
C16_HybridScore ==
    (last.op = "hybrid_search")
    => LET rows == last.response.documents
           mine == ConvDocs(conversations, last.user_id)
       IN /\ Len(rows) = Min(last.top_n,
                              Cardinality(Matches(last.user_id)
                                            \cup InVectorIndex(last.user_id)))
          /\ \A j, k \in DOMAIN rows : j < k => /\ rows[j].id # rows[k].id
                                                /\ rows[j].score >= rows[k].score
          /\ \A k \in DOMAIN rows :
                LET i == rows[k].id
                    f == IF i \in Matches(last.user_id)
                         THEN (last.fts[i] * 1000) \div BestFts(last.user_id) ELSE 0
                    v == IF rows[k].vs_score = NoScore THEN 0
                         ELSE (last.vs[i] * 1000) \div BestVs(last.user_id)
                IN /\ i \in mine
                   /\ rows[k].score = (last.weight * v + (1000 - last.weight) * f) \div 1000
                   /\ rows[k].vs_score = NoScore
                         => /\ i \in Matches(last.user_id)
                            /\ \/ i \notin InVectorIndex(last.user_id)
                               \/ Cardinality({m \in mine : last.vs[m] >= last.vs[i]})
                                     > last.top_n

C16_Witness ==
    /\ last.op = "hybrid_search"
    /\ last.top_n = 2
    /\ Len(last.response.documents) = 2
    /\ \E k \in DOMAIN last.response.documents :
          /\ last.response.documents[k].vs_score = NoScore
          /\ last.response.documents[k].fts_score > 0
    /\ \E k \in DOMAIN last.response.documents :
          /\ last.response.documents[k].vs_score = 1000
          /\ last.response.documents[k].fts_score > 0
          /\ last.response.documents[k].fts_score < 1000

---------------------------------------------------------------------------
(* Claims on find_similar_memories (checked under SpecFind) *)

\* the user's nodes strictly nearer to the query than node n
Nearer(user_id, n) ==
    {m \in Indexed(memory_nodes, user_id) :
       Similarity(memory_nodes, m, last.embeddings)
         > Similarity(memory_nodes, n, last.embeddings)}

\* C17: find_similar_memories(user_id, embedding, top_n, minimum_similarity) returns
\* at most top_n nodes, all of the lowercased user_id, all with similarity >=
\* minimum_similarity, ordered by effective_importance * similarity descending,
\* chosen among the top_n * 2 nearest raw candidates of that user.
C17_FindSimilarContract ==
    (last.op = "find" /\ ~last.raised /\ last.embeddings # NoEmb)
    => LET r == last.similar
           user_id == Lower(last.user_id)
       IN /\ Len(r) <= last.top_n
          /\ \A j, k \in DOMAIN r : j < k => r[j] # r[k]
          /\ \A k \in DOMAIN r :
                /\ r[k] \in DOMAIN memory_nodes
                /\ memory_nodes[r[k]].user_id = user_id
                /\ Similarity(memory_nodes, r[k], last.embeddings) >= last.minimum_similarity
                /\ Cardinality(Nearer(user_id, r[k])) < last.top_n * 2
          /\ \A j, k \in DOMAIN r :
                j < k => SortKey(memory_nodes, r[j], last.embeddings)
                           >= SortKey(memory_nodes, r[k], last.embeddings)

\* three nodes of the user pass the floor, two are fetched, and the one returned
\* is not the nearest of them
C17_Witness ==
    /\ last.op = "find"
    /\ ~last.raised
    /\ last.embeddings # NoEmb
    /\ last.user_id = <<"A">>
    /\ last.top_n = 1
    /\ Cardinality({n \in UserDocs(memory_nodes, <<"a">>) :
                      Similarity(memory_nodes, n, last.embeddings)
                        >= last.minimum_similarity}) = 3
    /\ Len(last.similar) = 1
    /\ Nearer(<<"a">>, last.similar[1]) # {}

---------------------------------------------------------------------------
(* Claims on the reinforce branch among several near nodes (checked under
   SpecBetween) *)

\* the results of the call's first query that are above the high threshold
High(store, similar_memories, embeddings) ==
    {similar_memories[i] : i \in {j \in DOMAIN similar_memories :
        Similarity(store, similar_memories[j], embeddings) > HIGH_SIMILARITY}}

\* the call wrote node n, and nothing else in the store
OnlyTouched(n) ==
    /\ DOMAIN memory_nodes' = DOMAIN memory_nodes
    /\ memory_nodes'[n].access_count = memory_nodes[n].access_count + 1
    /\ \A m \in DOMAIN memory_nodes \ {n} : memory_nodes'[m] = memory_nodes[m]

\* C18 as claimed: when more than one candidate has similarity > 0.85 to the new
\* content, the reinforce branch reinforces the candidate with the highest
\* similarity, and only that one.
C18_ReinforcesMostSimilar ==
    [][(/\ RememberStep
        /\ last'.branch = "reinforce"
        /\ Cardinality(High(memory_nodes, last'.similar, last'.embeddings)) > 1)
       => /\ OnlyTouched(last'.memory_id)
          /\ \A n \in High(memory_nodes, last'.similar, last'.embeddings) :
                Similarity(memory_nodes, last'.memory_id, last'.embeddings)
                  >= Similarity(memory_nodes, n, last'.embeddings)]_vars

\* C18 amended: when more than one candidate has similarity > 0.85 to the new
\* content, the reinforce branch reinforces the one of them that ranks first by
\* effective_importance * similarity, and only that one.
C18_ReinforcesFirstRanked ==
    [][(/\ RememberStep
        /\ last'.branch = "reinforce"
        /\ Cardinality(High(memory_nodes, last'.similar, last'.embeddings)) > 1)
       => /\ OnlyTouched(last'.memory_id)
          /\ last'.memory_id \in High(memory_nodes, last'.similar, last'.embeddings)
          /\ \A n \in High(memory_nodes, last'.similar, last'.embeddings) :
                SortKey(memory_nodes, last'.memory_id, last'.embeddings)
                  >= SortKey(memory_nodes, n, last'.embeddings)]_vars

\* a call reinforced a node while a nearer one was among the candidates
C18_Witness ==
    /\ last.op = "remember"
    /\ last.branch = "reinforce"
    /\ Cardinality(High(memory_nodes, last.similar, last.embeddings)) > 1
    /\ \E n \in High(memory_nodes, last.similar, last.embeddings) :
          Similarity(memory_nodes, n, last.embeddings)
            > Similarity(memory_nodes, last.memory_id, last.embeddings)

---------------------------------------------------------------------------
(* Claims on degraded input to remember_content *)

\* C19 (checked under Spec): remember_content with content that is empty after
\* trimming is rejected with a validation error, and the rejection makes no
\* embedding or text-generation call and leaves the memory store unchanged.
C19_EmptyContentRejected ==
    [][(RememberStep /\ last'.branch = "empty")
       => /\ last'.raised
          /\ ~last'.embedded
          /\ ~last'.generated
          /\ memory_nodes' = memory_nodes
          /\ nextId' = nextId]_vars

\* C20 (checked under SpecDegraded, where no store operation fails): when
\* generate_embedding returns an empty vector, remember_content finds no similar
\* candidates, always takes the create branch and completes successfully with a
\* new node persisted, whatever nodes the user already has; with text generation
\* also unavailable the new node's importance is the default 0.5.
C20_EmptyEmbeddingCreates ==
    [][(RememberStep /\ last'.embeddings = NoEmb)
       => /\ last'.similar = <<>>
          /\ last'.branch = "create"
          /\ ~last'.raised
          /\ last'.new \notin DOMAIN memory_nodes
          /\ last'.new \in DOMAIN memory_nodes'
          /\ last'.importance_rating_text = <<>>
                => last'.importance = DEFAULT_IMPORTANCE]_vars

\* C20 where the user already has a node that carries a vector
C20_EmptyEmbeddingBesideVectors ==
    [][(/\ RememberStep
        /\ last'.embeddings = NoEmb
        /\ \E n \in UserDocs(memory_nodes, last'.user_id) :
              memory_nodes[n].embeddings # NoEmb)
       => ~last'.raised]_vars

\* the first half of C20: without a vector the query finds nothing and the create
\* branch is taken, which inserts a node under the next id
C20_EmptyEmbeddingTakesCreate ==
    [][(RememberStep /\ last'.embeddings = NoEmb)
       => /\ last'.similar = <<>>
          /\ last'.branch = "create"
          /\ last'.new = nextId
          /\ nextId' = nextId + 1]_vars

---------------------------------------------------------------------------
(* Overlapping calls *)

\* task w has written to node id
Touched(w, id) ==
    \E k \in DOMAIN tasks[w].log :
        tasks[w].log[k].op \in {"insert", "update", "merge", "delete"} /\ tasks[w].log[k].id = id

\* t and u have both returned from the reinforce branch on the same node, of
\* which they had read the same importance and access_count, and no other call
\* has written to that node
BothReinforced(t, u) ==
    /\ t # u
    /\ tasks[t].pc = "done" /\ tasks[u].pc = "done"
    /\ tasks[t].branch = "reinforce" /\ tasks[u].branch = "reinforce"
    /\ tasks[t].memory = tasks[u].memory
    /\ \A w \in DOMAIN tasks \ {t, u} : ~Touched(w, tasks[t].memory.id)

C21_OneLoopSerial ==
    \A t, u \in DOMAIN tasks :
        (/\ t # u
         /\ tasks[t].loop = tasks[u].loop
         /\ tasks[t].branch = "reinforce" /\ tasks[u].branch = "reinforce"
         /\ tasks[t].memory.id = tasks[u].memory.id
         /\ \A w \in DOMAIN tasks \ {t, u} : ~Touched(w, tasks[t].memory.id))
        => tasks[t].memory.access_count # tasks[u].memory.access_count

\* task t has made the write op on node id
Did(t, op, id) ==
    \E k \in DOMAIN tasks[t].log : tasks[t].log[k] = [op |-> op, id |-> id]

\* node id has been written by its insert and by merges only
FreshlyMerged(id) ==
    \A w \in DOMAIN tasks : ~Did(w, "update", id) /\ ~Did(w, "delete", id)

\* t and u have both merged the same node into the nodes they created, and have
\* both deleted it
BothMerged(t, u) ==
    /\ t # u
    /\ tasks[t].memory.id = tasks[u].memory.id
    /\ Did(t, "merge", tasks[t].new) /\ Did(u, "merge", tasks[u].new)
    /\ Did(t, "delete", tasks[t].memory.id) /\ Did(u, "delete", tasks[u].memory.id)
    /\ FreshlyMerged(tasks[t].new) /\ FreshlyMerged(tasks[u].new)

\* C22: when two overlapping create-branch calls for the same user both find the
\* same existing node M in their second query, both merge it (a double merge):
\* each new node takes the access_count its call read of M and M is deleted, so
\* M's access_count stands twice in the store.
C22_DoubleMerge ==
    \A t, u \in DOMAIN tasks :
        BothMerged(t, u)
        => /\ tasks[t].memory.id \notin DOMAIN memory_nodes
           /\ tasks[t].new \in DOMAIN memory_nodes
           /\ tasks[u].new \in DOMAIN memory_nodes
           /\ memory_nodes[tasks[t].new].access_count = tasks[t].memory.access_count
           /\ memory_nodes[tasks[u].new].access_count = tasks[u].memory.access_count

C22_Witness ==
    \E t, u \in DOMAIN tasks :
        /\ BothMerged(t, u)
        /\ tasks[t].memory.access_count > 0
        /\ memory_nodes[tasks[t].new].access_count
              + memory_nodes[tasks[u].new].access_count
              = 2 * tasks[t].memory.access_count

\* the double merge between two calls of one process
C22_WitnessOneLoop ==
    \E t, u \in DOMAIN tasks :
        /\ t # u
        /\ tasks[t].loop = tasks[u].loop
        /\ tasks[t].memory.id = tasks[u].memory.id
        /\ Did(t, "merge", tasks[t].new) /\ Did(u, "merge", tasks[u].new)
        /\ Did(t, "delete", tasks[t].memory.id) /\ Did(u, "delete", tasks[u].memory.id)
        /\ tasks[t].memory.access_count > 0
        /\ tasks[t].new \in DOMAIN memory_nodes /\ tasks[u].new \in DOMAIN memory_nodes
        /\ memory_nodes[tasks[t].new].access_count >= tasks[t].memory.access_count
        /\ memory_nodes[tasks[u].new].access_count >= tasks[u].memory.access_count

---------------------------------------------------------------------------
(* Tenants *)

\* the nodes of the users other than user
Others(store, user) == {n \in DOMAIN store : store[n].user_id # user}

\* C24: a remember call for user u inserts, updates and deletes only nodes whose
\* user_id is lowercase(u): whatever branch it takes, the nodes of every other
\* user are there afterwards as they were before, and a node it adds belongs to
\* lowercase(u).
C24_OtherTenantsUnchanged ==
    [][RememberStep
       => /\ \A n \in Others(memory_nodes, last'.user_id) :
                n \in DOMAIN memory_nodes' /\ memory_nodes'[n] = memory_nodes[n]
          /\ \A n \in DOMAIN memory_nodes' \ DOMAIN memory_nodes :
                memory_nodes'[n].user_id = last'.user_id]_vars

\* a call that has merged, written its global pass and pruned beside another
\* user's node that the new content resembles
C24_Witness ==
    /\ last.op = "remember"
    /\ last.branch = "create"
    /\ last.merged # 0
    /\ last.writes # <<>>
    /\ \E n \in Others(memory_nodes, last.user_id) :
          \E similarity \in cosine_similarity(last.embeddings, memory_nodes[n].embeddings) :
             similarity.value > HIGH_SIMILARITY

\* the same beside a call that has pruned
C24_WitnessPruned ==
    /\ last.op = "remember"
    /\ last.pruned # {}
    /\ Others(memory_nodes, last.user_id) # {}

---------------------------------------------------------------------------
(* The model client *)

\* the invocation a call ended on failed
FinalFailure ==
    IF last.invocations = 2 THEN last.second.kind # "ok" ELSE last.first.kind # "ok"

C25_WitnessEmbedding ==
    /\ last.op = "generate_embedding"
    /\ last.invocations = 2
    /\ last.second.kind = "Exception"
    /\ last.value = NoEmb

---------------------------------------------------------------------------
(* The importance rating *)

\* the run of digits and dots s begins with
RECURSIVE Run(_)
Run(s) ==
    IF s # <<>> /\ IsDigitOrDot(Head(s)) THEN <<Head(s)>> \o Run(Tail(s)) ELSE <<>>

\* the first numeric token of s: the first unbroken run of digits and dots that
\* holds a digit, <<>> when s has none
RECURSIVE FirstToken(_)
FirstToken(s) ==
    IF s = <<>> THEN <<>>
    ELSE IF SelectSeq(Run(s), IsDigit) # <<>> THEN Run(s)
    ELSE FirstToken(SubSeq(s, Len(Run(s)) + 2, Len(s)))

\* clamp(token / 10, 0.1, 1.0), and 0.5 when the token does not parse
TokenScore(s) ==
    LET rating == ParseFloat(FirstToken(s))
    IN IF rating.ValueError THEN DEFAULT_IMPORTANCE
       ELSE Min(Max(rating.value \div 10, MIN_IMPORTANCE), MAX_IMPORTANCE)

\* C26: in the create branch the initial importance is
\* clamp(token / 10, 0.1, 1.0) for the first numeric token of the rating text,
\* 0.5 when the text has no parseable number or text generation is unavailable,
\* and always within [0.1, 1.0].
C26_FirstNumericToken ==
    last.op = "rate"
    => /\ last.importance_score = TokenScore(last.importance_rating_text)
       /\ MIN_IMPORTANCE <= last.importance_score
       /\ last.importance_score <= MAX_IMPORTANCE

\* the parts of C26 the code keeps: the range, the default for a text without a
\* digit, and the first-token rule on texts that hold one run of digits and dots
C26_RangeAndDefault ==
    last.op = "rate"
    => /\ MIN_IMPORTANCE <= last.importance_score
       /\ last.importance_score <= MAX_IMPORTANCE
       /\ SelectSeq(last.importance_rating_text, IsDigit) = <<>>
             => last.importance_score = DEFAULT_IMPORTANCE
       /\ SelectSeq(last.importance_rating_text, IsDigitOrDot)
               = FirstToken(last.importance_rating_text)
             => last.importance_score = TokenScore(last.importance_rating_text)

---------------------------------------------------------------------------
(* list_all_memories *)

\* the rows are the nodes of the lowercased user, each once
ListsTheUsersNodes ==
    /\ {last.results[i].id : i \in DOMAIN last.results}
          = UserDocs(memory_nodes, Lower(last.user_id))
    /\ Len(last.results) = Cardinality(UserDocs(memory_nodes, Lower(last.user_id)))

\* C27: list_all_memories returns all memory nodes of the lowercased user,
\* sorted by effective importance, importance * (1 + ln(access_count + 1)), in
\* descending order.
C27_SortedByEffectiveImportance ==
    last.op = "list"
    => /\ ListsTheUsersNodes
       /\ \A i, j \in DOMAIN last.results :
             i < j => last.results[i].effective_importance
                        >= last.results[j].effective_importance

\* what the code does: all nodes of the lowercased user, each with its effective
\* importance, in descending order of the stored importance
C27_SortedByImportance ==
    last.op = "list"
    => /\ ListsTheUsersNodes
       /\ \A i \in DOMAIN last.results :
             last.results[i].effective_importance
               = EffectiveImportance(memory_nodes[last.results[i].id])
       /\ \A i, j \in DOMAIN last.results :
             i < j => last.results[i].importance >= last.results[j].importance

---------------------------------------------------------------------------
(* Index health *)

\* the names the collection of a required index lists
ListedWith(idx_name) ==
    IF idx_name \in Range(REQUIRED_INDEXES.conversations) THEN last.conv.names
    ELSE last.mem.names

\* C28: validate_search_indexes returns one entry for each of the three required
\* indexes, with exists = true exactly when the name is among the search indexes
\* its collection lists, and with exists = false and an error field for all
\* three when a listing raises; get_index_status maps each entry to "error" when
\* it has an error field, else to "exists" when exists is true, else to
\* "missing".
C28_IndexStatus ==
    last.op = "get_index_status"
    => /\ DOMAIN last.full_status = all_indexes
       /\ Cardinality(all_indexes) = 3
       /\ DOMAIN last.simple_status = all_indexes
       /\ \A idx_name \in all_indexes :
             LET info == last.full_status[idx_name]
                 listing_raised == last.conv.raised \/ last.mem.raised
             IN /\ listing_raised => ~info.exists /\ "error" \in DOMAIN info
                /\ ~listing_raised
                     => /\ info.exists <=> idx_name \in ListedWith(idx_name)
                        /\ "error" \notin DOMAIN info
                /\ last.simple_status[idx_name]
                     = IF "error" \in DOMAIN info THEN "error"
                       ELSE IF info.exists THEN "exists"
                       ELSE "missing"

\* a required index of conversations that only memory_nodes lists, beside one
\* that exists
C28_Witness ==
    /\ last.op = "get_index_status"
    /\ "conversations_vector_search_index" \in last.mem.names \ last.conv.names
    /\ last.simple_status["conversations_vector_search_index"] = "missing"
    /\ last.simple_status["memory_nodes_vector_search_index"] = "exists"

\* the second listing raises after the first has been checked
C28_WitnessError ==
    /\ last.op = "get_index_status"
    /\ ~last.conv.raised /\ last.mem.raised
    /\ "conversations_vector_search_index" \in last.conv.names
    /\ \A idx_name \in all_indexes : last.simple_status[idx_name] = "error"

---------------------------------------------------------------------------
(* The global pass *)

\* the writes of the global pass among the writes of the last call
PassWrites(writes) ==
    SelectSeq(writes, LAMBDA w : w.kind \in {"pass_reinforce", "pass_decay"})

\* the vector node n carries when the global pass of the step compares it: the
\* node created in the step has been merged by then, every other is as before
VectorAtPass(n) ==
    IF n \in DOMAIN memory_nodes THEN memory_nodes[n].embeddings
    ELSE memory_nodes'[n].embeddings

---------------------------------------------------------------------------
(* last_accessed *)

\* C30: every reinforcement of a memory node, in the reinforce branch and in the
\* global pass alike, sets its last_accessed to the time of the reinforcement:
\* a write that multiplies the importance by REINFORCEMENT_FACTOR and raises the
\* access_count by 1 also writes last_accessed.
C30_ReinforcementSetsLastAccessed ==
    last.op = "remember"
    => \A k \in DOMAIN last.writes :
          (/\ last.writes[k].kind \in {"reinforce", "pass_reinforce"}
           /\ last.writes[k].access_count = last.writes[k].access_count_old + 1)
          => last.writes[k].last_accessed

\* what the code does: the reinforce branch writes last_accessed, the global
\* pass never does
C30_ReinforceBranchOnly ==
    last.op = "remember"
    => \A k \in DOMAIN last.writes :
          last.writes[k].last_accessed <=> last.writes[k].kind = "reinforce"

---------------------------------------------------------------------------
(* the merge loop stops at its first candidate *)

\* the store a create-branch call queries the second time (line 298): the store
\* before the call with the node of lines 283-295 inserted
AfterInsertOfLast ==
    InsertOne(memory_nodes, last'.new,
              [user_id |-> last'.user_id, importance |-> last'.importance,
               access_count |-> 0, embeddings |-> last'.embeddings])

\* the positions of a result list that lie in the merge band
InBand(store, r, embeddings, new) ==
    {i \in DOMAIN r :
       /\ r[i] # new
       /\ MERGE_LOW < Similarity(store, r[i], embeddings)
       /\ Similarity(store, r[i], embeddings) < HIGH_SIMILARITY}

\* C31: a single remember call merges with at most one pre-existing node: the
\* first merge-band candidate in ranked order is deleted and its access_count
\* and embedding are folded into the new node; every other merge-band candidate
\* still exists after the merge pass (only the prune of the same call can
\* remove it) and is not itself merged.
C31_MergesAtMostOne ==
    [][(RememberStep /\ last'.branch = "create" /\ ~last'.raised)
       => \E r \in find_similar_memories(AfterInsertOfLast, last'.user_id,
                                         last'.embeddings, TOP_N, MINIMUM_SIMILARITY) :
            LET band == InBand(AfterInsertOfLast, r, last'.embeddings, last'.new)
            IN /\ DOMAIN memory_nodes'
                    = ((DOMAIN memory_nodes \cup {last'.new})
                          \ ({last'.merged} \cup last'.pruned))
               /\ last'.merged = 0 <=> band = {}
               /\ band # {}
                  => /\ last'.merged \in {r[i] : i \in band}
                     /\ \A i, j \in band : r[j] = last'.merged => j <= i
                     /\ last'.merged \notin DOMAIN memory_nodes'
                     /\ \A i \in band :
                           r[i] # last'.merged
                           => r[i] \in DOMAIN memory_nodes' \cup last'.pruned
                     /\ last'.writes # <<>>
                     /\ last'.writes[1].kind = "merge"
                     /\ last'.writes[1].id = last'.new
                     /\ last'.writes[1].access_count
                          = memory_nodes[last'.merged].access_count
                     /\ \A k \in DOMAIN last'.writes : k > 1
                           => last'.writes[k].kind # "merge"]_vars

\* a call merged one node while another node of the user, equally in the merge
\* band of the new content, is still in the store
C31_Witness ==
    /\ last.op = "remember"
    /\ last.branch = "create"
    /\ ~last.raised
    /\ last.merged # 0
    /\ \E n \in UserDocs(memory_nodes, last.user_id) :
          /\ n # last.new
          /\ MERGE_LOW < Similarity(memory_nodes, n, last.embeddings)
          /\ Similarity(memory_nodes, n, last.embeddings) < HIGH_SIMILARITY

---------------------------------------------------------------------------
(* the reinforce branch touches one node *)

\* C32: a remember call that takes the reinforce branch writes only the
\* importance, access_count and last_accessed of the one reinforced node: its
\* embedding and owner are unchanged and every other node is left exactly as it
\* was (no global reinforce/decay pass, no merge, no prune, no insert).
C32_ReinforceWritesOneNode ==
    [][(RememberStep /\ last'.branch = "reinforce")
       => /\ ~last'.raised
          /\ last'.memory_id \in DOMAIN memory_nodes
          /\ DOMAIN memory_nodes' = DOMAIN memory_nodes
          /\ nextId' = nextId
          /\ \A n \in DOMAIN memory_nodes :
                n # last'.memory_id => memory_nodes'[n] = memory_nodes[n]
          /\ memory_nodes'[last'.memory_id]
               = [memory_nodes[last'.memory_id]
                    EXCEPT !.importance = memory_nodes'[last'.memory_id].importance,
                           !.access_count = memory_nodes'[last'.memory_id].access_count]
          /\ Len(last'.writes) = 1
          /\ last'.writes[1].kind = "reinforce"
          /\ last'.writes[1].id = last'.memory_id
          /\ last'.writes[1].last_accessed
          /\ last'.merged = 0
          /\ last'.pruned = {}
          /\ last'.new = 0]_vars

\* a reinforcing call of a user who holds a second node that the global pass
\* would have reinforced (similarity to the content at least 0.7)
C32_Witness ==
    /\ last.op = "remember"
    /\ last.branch = "reinforce"
    /\ \E n \in UserDocs(memory_nodes, last.user_id) :
          /\ n # last.memory_id
          /\ Similarity(memory_nodes, n, last.embeddings) >= SIMILARITY_THRESHOLD

---------------------------------------------------------------------------
(* the node a call returns *)

\* C33: after a remember call returns a created result ("Remembered: ...") with
\* memory_id X, a node with id X exists in the user's memory store: the node a
\* call has just created is never pruned by that same call.
C33_CreatedNodeExists ==
    (last.op = "remember" /\ ~last.raised /\ last.message = "Remembered")
    => /\ last.memory_id \in DOMAIN memory_nodes
       /\ memory_nodes[last.memory_id].user_id = last.user_id

\* what the code does: the returned node is stored unless the prune of the same
\* call deleted it
C33_CreatedUnlessPruned ==
    (last.op = "remember" /\ ~last.raised /\ last.message = "Remembered")
    => /\ last.memory_id = last.new
       /\ last.memory_id \in DOMAIN memory_nodes \cup last.pruned
       /\ last.memory_id \in DOMAIN memory_nodes
          => memory_nodes[last.memory_id].user_id = last.user_id

\* a create-branch call that returned without having merged
CreatedUnmerged ==
    /\ last.op = "remember"
    /\ last.branch = "create"
    /\ ~last.raised
    /\ last.merged = 0

C34_WitnessDecayed ==
    /\ CreatedUnmerged
    /\ last.memory_id \in DOMAIN memory_nodes
    /\ memory_nodes[last.memory_id].embeddings = NoEmb
    /\ memory_nodes[last.memory_id].importance = Decayed(last.importance)

---------------------------------------------------------------------------
(* hybrid mode and the sentinel *)

\* a search_memory call that ran the hybrid pipeline and got its results
HybridAnswered ==
    /\ last.op = "search"
    /\ last.embeddings # NoEmb
    /\ ~last.response.raised

\* the user's documents the vector search returns with a positive score
VectorCandidates ==
    {i \in ConvDocs(conversations, last.user_id) : last.vs[i] > 0}

\* C35: in hybrid mode, whenever the vector search returns at least one candidate
\* with a positive score, at least one document passes the 0.70 filter (the top
\* vector hit has normalized vector score 1, hence hybrid score >= 0.8 with
\* weight 0.8); the "No documents found" sentinel with total_results > 0 is
\* returned only when the vector candidate set is empty.
C35_VectorHitPassesFilter ==
    HybridAnswered
    => /\ VectorCandidates # {}
          => /\ ~last.response.sentinel
             /\ last.response.relevant_results >= 1
             /\ last.response.documents[1].score >= HYBRID_WEIGHT
             /\ \E k \in DOMAIN last.response.documents :
                   /\ last.response.documents[k].id \in VectorCandidates
                   /\ last.response.documents[k].vs_score = 1000
                   /\ last.response.documents[k].score >= HYBRID_WEIGHT
       /\ (last.response.sentinel /\ last.response.total_results > 0)
          => VectorCandidates = {}

\* a hybrid search with a vector hit whose raw score is below 0.70 returned it,
\* and filtered out a document that only the full-text side found
C35_Witness ==
    /\ HybridAnswered
    /\ VectorCandidates # {}
    /\ \A i \in VectorCandidates : last.vs[i] < MINIMUM_HYBRID_SCORE
    /\ last.response.relevant_results >= 1
    /\ last.response.relevant_results < last.response.total_results

\* a hybrid search without vector candidates returned the sentinel over
\* full-text matches
C35_WitnessSentinel ==
    /\ HybridAnswered
    /\ VectorCandidates = {}
    /\ last.response.sentinel
    /\ last.response.total_results > 0

---------------------------------------------------------------------------
(* near-duplicates and the truncated ranking *)

\* the nodes of the calling user that are nearer than 0.85 to the new content
NearDuplicates ==
    {n \in UserDocs(memory_nodes, last'.user_id) :
       /\ memory_nodes[n].embeddings # NoEmb
       /\ Similarity(memory_nodes, n, last'.embeddings) > HIGH_SIMILARITY}

\* C36: if the user already has a node whose similarity to the new content
\* exceeds 0.85, a remember call never creates a new node for that content,
\* regardless of how many other nodes the user has and of their importances and
\* access counts.
C36_NearDuplicateNeverCreates ==
    [][(RememberStep /\ last'.embeddings # NoEmb /\ NearDuplicates # {})
       => /\ last'.new = 0
          /\ nextId' = nextId]_vars

\* what the code does: it creates no node when a near-duplicate is among the
\* TOP_N results of the first query
C36_RankedNearDuplicateNeverCreates ==
    [][(/\ RememberStep
        /\ last'.embeddings # NoEmb
        /\ NearDuplicates \cap {last'.similar[i] : i \in DOMAIN last'.similar} # {})
       => /\ last'.new = 0
          /\ nextId' = nextId
          /\ last'.branch = "reinforce"]_vars

---------------------------------------------------------------------------
(* overlapping prune passes *)

\* task t deletes a document in its prune pass in this step
PruneDeletes(t) ==
    /\ tasks[t].pc = "prune_delete"
    /\ tasks'[t].log # tasks[t].log

OneLoop(t) == \A u \in DOMAIN tasks : tasks[u].loop = tasks[t].loop

PruneDeleteAt(t, k) ==
    /\ tasks[t].log[k].op = "delete"
    /\ \E j \in 1 .. k - 1 : tasks[t].log[j].op = "update"

C37_WitnessBelow ==
    /\ Len(tasks) = 2
    /\ ~OneLoop(1)
    /\ \A t \in DOMAIN tasks :
          /\ tasks[t].pc = "done"
          /\ \E k \in DOMAIN tasks[t].log : PruneDeleteAt(t, k)
    /\ Cardinality(UserDocs(memory_nodes, <<"a">>)) < MAX_DEPTH

---------------------------------------------------------------------------
(* the tenant key of a message and of its memory node *)

\* an add_conversation_message call that persisted its message and went on into
\* remember_content
Consolidated ==
    /\ last.op = "add_message"
    /\ last.invoked
    /\ conversations # <<>>

\* C38: the memory node created from an ingested message carries the same tenant
\* key as the persisted message: for every accepted input, the user_id stored on
\* the message and the user_id passed to consolidation and stored on the memory
\* node are equal.
C38_SameTenantKey ==
    Consolidated
    => /\ last.user_id = conversations[Len(conversations)].user_id
       /\ last.new \in DOMAIN memory_nodes
          => memory_nodes[last.new].user_id = conversations[Len(conversations)].user_id

\* what the code does: the message is keyed by the lowercased and trimmed
\* user_id, the memory node by the lowercased one
C38_TrimmedOnMessageOnly ==
    Consolidated
    => /\ conversations[Len(conversations)].user_id = Strip(Lower(last.input.user_id))
       /\ last.user_id = Lower(last.input.user_id)
       /\ last.new \in DOMAIN memory_nodes
          => memory_nodes[last.new].user_id = Lower(last.input.user_id)

---------------------------------------------------------------------------
(* a call that raises *)

LastWriteTo(writes, n) ==
    IF \E k \in DOMAIN writes : writes[k].id = n
    THEN CHOOSE k \in DOMAIN writes :
            writes[k].id = n /\ \A j \in DOMAIN writes : writes[j].id = n => j <= k
    ELSE 0

C39_WitnessPartialPass ==
    /\ last.op = "remember"
    /\ last.raised
    /\ \E k \in DOMAIN last.writes : last.writes[k].kind \in {"pass_reinforce", "pass_decay"}
    /\ \E n \in UserDocs(memory_nodes, last.user_id) : LastWriteTo(last.writes, n) = 0

---------------------------------------------------------------------------
(* deleted nodes stay deleted *)

\* task t makes an update_one in this step, on the _id it logs
UpdatesInStep(t) ==
    /\ Len(tasks'[t].log) = Len(tasks[t].log) + 1
    /\ tasks'[t].log[Len(tasks'[t].log)].op \in {"update", "merge"}

\* C40: under any interleaving of concurrent remember calls for the same user, a
\* memory node that has been deleted (by merge or prune) never reappears in the
\* store: a later update-by-id issued by a call that read the node before its
\* deletion changes nothing.
C40_DeletedNeverReappears ==
    [][/\ \A n \in 1 .. (nextId - 1) :
             n \notin DOMAIN memory_nodes => n \notin DOMAIN memory_nodes'
       /\ \A t \in DOMAIN tasks :
             (/\ UpdatesInStep(t)
              /\ tasks'[t].log[Len(tasks'[t].log)].id \notin DOMAIN memory_nodes)
             => memory_nodes' = memory_nodes]_vars

\* a call has written to a node that another call had deleted by then, and the
\* node is not in the store
C40_Witness ==
    \E t \in DOMAIN tasks :
       \E n \in tasks[t].unmatched :
          /\ n \notin DOMAIN memory_nodes
          /\ n < nextId
          /\ \E u \in DOMAIN tasks \ {t} : Did(u, "delete", n)
          /\ tasks[t].pc = "done"

====
